---- MODULE Spec2Model ----
(***************************************************************************)
(* Model of the singleflight group of examples/singleflight.go             *)
(* (src/unnamed/part_001, lines 137-184): type singleflight, type call,    *)
(* and the method Do(key, fn), called concurrently by NumCallers           *)
(* goroutines as in RunSingleflight.                                       *)
(***************************************************************************)
EXTENDS Integers, FiniteSets, Sequences, TLC

\* Number of goroutines that call Do (each calls it once).
NumCallers == 3
\* Number of distinct keys the callers choose from.
NumKeys == 2

Callers == 1..NumCallers
Keys == 1..NumKeys

\* The zero value of an interface{} or of an error.
Nil == <<"nil">>
\* The value fn returns when caller p runs it: it names the caller that ran it.
ValOf(p) == <<"data", p>>
\* The error fn returns when caller p runs it and it fails.
ErrOf(p) == <<"error", p>>

VARIABLES
    mu,        \* sf.mu: 0 when unlocked, else the caller holding it
    calls,     \* sf.calls: function from the registered keys to a call record
    rec,       \* the call records ever allocated, named by their creator
    pc,        \* each caller's position in Do
    key,       \* each caller's key argument (0 before the call)
    c,         \* each caller's local variable c (0 when unset)
    ret,       \* the value Do returned to each caller
    counter,   \* per key: number of invocations of fn (the instrumented op)
    invoked,   \* per caller: number of times this call invoked its own fn
    late,      \* per key: some call for it began after another call for it had ended
    overlapped \* per key: some call for it began while another call for it was in flight

\* State of a caller that wraps Do in its own timeout (design section 5).
VARIABLES
    abandoned  \* per caller: it gave up waiting for the result of its Do call

\* ---------------------------------------------------------------------
\* Publish-subscribe example (RunPubSub, broadcaster).

\* Number of subscriber goroutines.
NumSubs == 2
\* Number of messages the publisher goroutine publishes before it closes.
NumMsgs == 3
\* Capacity of a subscriber channel: make(chan string, 2).
ChanCap == 2

Subs == 1..NumSubs

VARIABLES
    bmu,         \* b.mu: TRUE while held
    subscribers, \* b.subscribers: the channels in subscription order
    bclosed,     \* b.closed
    chBuf,       \* per subscriber channel: its buffered messages, oldest first
    chClosed,    \* per subscriber channel: it has been closed
    pubPc,       \* position of the publisher goroutine
    pubMsg,      \* the publisher's loop variable i
    pubIdx,      \* position of publish in its loop over b.subscribers
    subPc,       \* position of each subscriber goroutine
    received,    \* per subscriber: the messages its range loop received
    subAt        \* per subscriber: messages published before it subscribed

psVars == <<bmu, subscribers, bclosed, chBuf, chClosed, pubPc, pubMsg, pubIdx,
            subPc, received, subAt>>

\* newBroadcaster(): no subscribers, not closed; the publisher has not run.
PsInit ==
    /\ bmu = FALSE
    /\ subscribers = <<>>
    /\ bclosed = FALSE
    /\ chBuf = [s \in Subs |-> <<>>]
    /\ chClosed = [s \in Subs |-> FALSE]
    /\ pubPc = "publish"
    /\ pubMsg = 1
    /\ pubIdx = 1
    /\ subPc = [s \in Subs |-> "new"]
    /\ received = [s \in Subs |-> <<>>]
    /\ subAt = [s \in Subs |-> 0]

\* ---------------------------------------------------------------------
\* Fan-out/fan-in example (RunFan, generateWorkItems, worker, fanOut, fanIn).

\* Number of work items generated.
NumItems == 3
\* Number of workers of the fan-out.
NumFanWorkers == 2

\* WorkItem IDs run from 0.
Items == 0..(NumItems - 1)
FanWorkers == 1..NumFanWorkers

VARIABLES
    genNext,    \* the next item the generator sends on the unbuffered jobs channel
    genClosed,  \* the jobs channel has been closed
    fwState,    \* per worker: "recv" (in range jobs), "send" (results <- result), "exit"
    fwJob,      \* per worker: the ID of the item it holds (-1 when none)
    fanClosed,  \* number of worker result channels the fanOut closer has closed
    fdState,    \* per forwarder of fanIn: "recv", "send" (out <- result), "exit"
    fdRes,      \* per forwarder: the result <<item, worker>> it holds (<<>> when none)
    outClosed,  \* the merged channel out has been closed
    output,     \* the results the consumer loop of RunFan received, in order
    consDone    \* the consumer loop of RunFan has ended

fanVars == <<genNext, genClosed, fwState, fwJob, fanClosed, fdState, fdRes,
             outClosed, output, consDone>>

\* RunFan before any goroutine has taken a step.
FanInit ==
    /\ genNext = 0
    /\ genClosed = FALSE
    /\ fwState = [w \in FanWorkers |-> "recv"]
    /\ fwJob = [w \in FanWorkers |-> -1]
    /\ fanClosed = 0
    /\ fdState = [w \in FanWorkers |-> "recv"]
    /\ fdRes = [w \in FanWorkers |-> <<>>]
    /\ outClosed = FALSE
    /\ output = <<>>
    /\ consDone = FALSE

\* ---------------------------------------------------------------------
\* Worker pool example (RunPools, workerPool).

\* Number of jobs sent to the pool; also the capacity of both channels.
NumJobs == 3
\* Number of workers of the pool.
NumPoolWorkers == 2

Jobs == 1..NumJobs
PoolWorkers == 1..NumPoolWorkers

VARIABLES
    jobsBuf,       \* the buffered jobs channel, oldest first
    jobsSent,      \* the sender goroutine's loop variable i
    jobsClosed,    \* the jobs channel has been closed
    pwState,       \* per worker: "recv", "send" (results <- result), "exit"
    pwJob,         \* per worker: the job it holds (0 when none)
    resultsBuf,    \* the buffered results channel, oldest first
    resultsClosed, \* the results channel has been closed
    collected,     \* the results the collector loop received, in order
    collDone       \* the collector loop has ended

poolVars == <<jobsBuf, jobsSent, jobsClosed, pwState, pwJob, resultsBuf,
              resultsClosed, collected, collDone>>

\* RunPools before any goroutine has taken a step.
PoolInit ==
    /\ jobsBuf = <<>>
    /\ jobsSent = 1
    /\ jobsClosed = FALSE
    /\ pwState = [w \in PoolWorkers |-> "recv"]
    /\ pwJob = [w \in PoolWorkers |-> 0]
    /\ resultsBuf = <<>>
    /\ resultsClosed = FALSE
    /\ collected = <<>>
    /\ collDone = FALSE

\* ---------------------------------------------------------------------
\* Producer-consumer example (RunProducerConsumer).

\* Capacity of the buffer channel.
BufferSize == 5
\* Number of producer goroutines.
NumProducers == 2
\* Number of consumer goroutines.
NumConsumers == 3
\* Number of items each producer sends.
NumProduced == 3

Producers == 1..NumProducers
Consumers == 1..NumConsumers
\* An item is named by its producer and its place in that producer's loop.
Produced == Producers \X (1..NumProduced)

VARIABLES
    produced,   \* per producer: number of items it has sent
    bufQ,       \* the buffer channel, oldest first
    bufClosed,  \* the buffer channel has been closed
    consState,  \* per consumer: "recv" (in range buffer) or "done"
    recvCount,  \* per item: number of times a consumer received it
    mainPc      \* RunProducerConsumer: "waitProducers", "waitConsumers", "done"

pcVars == <<produced, bufQ, bufClosed, consState, recvCount, mainPc>>

\* RunProducerConsumer once all goroutines are started.
PcInit ==
    /\ produced = [p \in Producers |-> 0]
    /\ bufQ = <<>>
    /\ bufClosed = FALSE
    /\ consState = [cn \in Consumers |-> "recv"]
    /\ recvCount = [it \in Produced |-> 0]
    /\ mainPc = "waitProducers"

\* ---------------------------------------------------------------------
\* MapReduce example (RunMapReduce, mapPhase, shufflePhase, reducePhase).

\* Number of lines of the input.
NumLines == 2
\* out has room for len(data)*10 pairs.
OutPerLine == 10

\* A line is a sequence of characters; these are the lines inputs are made of:
\* "Go go", " \tGO ", "hi".
Lines ==
    { <<"G", "o", " ", "g", "o">>,
      <<" ", "\t", "G", "O", " ">>,
      <<"h", "i">> }
\* The inputs: every sequence of NumLines lines.
Inputs == [1..NumLines -> Lines]

VARIABLES
    data,         \* the input lines
    mapPos,       \* per line: number of words its map goroutine has emitted
    mapped,       \* the channel out of mapPhase, oldest first
    mappedClosed, \* that channel has been closed
    shKv,         \* the pair of each shuffle goroutine, in the order they were started
    shState,      \* per shuffle goroutine: "start", "write" (holds mu), "print", "done"
    shMu,         \* the shuffle goroutine that holds mu of shufflePhase (0 when free)
    grouped,      \* the map grouped of shufflePhase
    pending,      \* the words whose reduce goroutine has not stored its total yet
    result,       \* the map result of reducePhase
    mrPc          \* RunMapReduce: "shuffle", "wait", "reduce", "done", or "crashed"

mrVars == <<data, mapPos, mapped, mappedClosed, shKv, shState, shMu, grouped,
            pending, result, mrPc>>

\* RunMapReduce called with input d: mapPhase has started one goroutine per
\* line and shufflePhase is about to range over the channel.
MrStart(d) ==
    /\ data = d
    /\ mapPos = [l \in 1..Len(d) |-> 0]
    /\ mapped = <<>>
    /\ mappedClosed = FALSE
    /\ shKv = <<>>
    /\ shState = <<>>
    /\ shMu = 0
    /\ grouped = <<>>
    /\ pending = {}
    /\ result = <<>>
    /\ mrPc = "shuffle"

\* RunMapReduce on one of the inputs.
MrInit == \E d \in Inputs : MrStart(d)

\* RunMapReduce on no data at all.
MrIdle == MrStart(<<>>)

\* ---------------------------------------------------------------------
\* Resource pooling example (RunResourcePooling, dbConnectionPool).

\* newDBConnectionPool(initial, maxSize)
PoolInitial == 1
PoolMaxSize == 3
\* Number of goroutines that get and release a connection.
NumClients == 4

Clients == 1..NumClients

\* &dbConnection{id: n}: obj tells the allocations apart.
DbConnection(o, n) == [obj |-> o, id |-> n]

VARIABLES
    connections, \* p.connections, oldest first
    created,     \* p.created
    dbMu,        \* the goroutine that holds p.mu (0 when free)
    connClosed,  \* p.connections has been closed
    allocs,      \* number of dbConnection values allocated so far
    cpc,         \* per goroutine: "get", "lock", "check", "new", "wait", "use", "done"
    conn         \* per goroutine: the connection it holds (<<>> when none)

rpVars == <<connections, created, dbMu, connClosed, allocs, cpc, conn>>

\* newDBConnectionPool: the channel is pre-populated with the initial
\* connections, ids 1..initial, and created counts them.
RpInit ==
    /\ connections = [i \in 1..PoolInitial |-> DbConnection(i, i)]
    /\ created = PoolInitial
    /\ dbMu = 0
    /\ connClosed = FALSE
    /\ allocs = PoolInitial
    /\ cpc = [w \in Clients |-> "get"]
    /\ conn = [w \in Clients |-> <<>>]

\* ---------------------------------------------------------------------
\* The broadcaster called by several goroutines at once, each calling
\* publish or close.

\* Number of goroutines that call publish or close.
NumApiCallers == 3

ApiCallers == 1..NumApiCallers

VARIABLES
    apiPc,    \* per goroutine: "idle", "send" (inside the loop of publish), "done"
    apiOp,    \* per goroutine: "none", or what its call was: "publish", "close",
              \* or "publishNoop", "closeNoop" when it returned at the closed check
    apiIdx,   \* per goroutine: position of its publish in the loop over b.subscribers
    apiPanic  \* a goroutine panicked: send on closed channel or close of closed channel

apiVars == <<apiPc, apiOp, apiIdx, apiPanic>>

ApiInit ==
    /\ apiPc = [a \in ApiCallers |-> "idle"]
    /\ apiOp = [a \in ApiCallers |-> "none"]
    /\ apiIdx = [a \in ApiCallers |-> 0]
    /\ apiPanic = FALSE

\* ---------------------------------------------------------------------
\* Supervisor example (RunSupervisor, workerWithFailure).

\* Bound on the number of workers the supervisor launches in a run.
MaxWorkers == 3

Workers == 1..MaxWorkers

VARIABLES
    stopClosed,        \* the channel stop has been closed
    doneClosed,        \* the channel done has been closed
    supPc,             \* supervisor goroutine: "launch", "select", "sleep", "exit"
    launched,          \* number of workers launched; the last one is the current one
    restarts,          \* the counter restarts
    wState,            \* per worker: "none", "select", "send" (done <- struct{}{}), "exited"
    wHow,              \* per worker: "none", or how it came to its send:
                       \* "failed", "completed", "stopped"
    supMainPc,         \* RunSupervisor: "sleep", "wait" (<-done), "done"
    launchedAfterStop  \* a worker was launched after stop had been closed

supVars == <<stopClosed, doneClosed, supPc, launched, restarts, wState, wHow,
             supMainPc, launchedAfterStop>>

\* RunSupervisor has made the channels and started the supervisor goroutine.
SupInit ==
    /\ stopClosed = FALSE
    /\ doneClosed = FALSE
    /\ supPc = "launch"
    /\ launched = 0
    /\ restarts = 0
    /\ wState = [n \in Workers |-> "none"]
    /\ wHow = [n \in Workers |-> "none"]
    /\ supMainPc = "sleep"
    /\ launchedAfterStop = FALSE

\* ---------------------------------------------------------------------
\* Token bucket of the rate limiting example (RunRateLimiting,
\* tokenBucketLimiter).

\* Capacity of the bucket (burst).
Burst == 2

\* Number of goroutines that call Allow once each.
NumRequests == 4

\* Bound on the number of ticks of the refill ticker in a run.
MaxTicks == 2

Requests == 1..NumRequests

VARIABLES
    tokens,    \* number of tokens in the channel tokens
    ticks,     \* number of ticks the refill goroutine has received
    allowed    \* per request: "none" (Allow not yet called), "granted", "denied"

tbVars == <<tokens, ticks, allowed>>

\* newTokenBucketLimiter has filled the bucket and started refill.
TbInit ==
    /\ tokens = Burst
    /\ ticks = 0
    /\ allowed = [i \in Requests |-> "none"]

\* ---------------------------------------------------------------------
\* Event loop example (RunEventLoop, eventLoop, the event producers).

\* The event channels: userEvents, systemEvents, timerEvents.
EventSources == {"user", "system", "timer"}

\* Capacity of each event channel.
EventCap == 10

\* Number of events each producer sends.
NumEvents == 2

VARIABLES
    evBuf,           \* per event channel: the events in its buffer, oldest first
    evSent,          \* per producer: number of events it has sent
    processed,       \* the events the event loop has processed
    elPc,            \* eventLoop: "select", "exit" (returned)
    shutdownClosed   \* the channel shutdown has been closed

elVars == <<evBuf, evSent, processed, elPc, shutdownClosed>>

\* RunEventLoop has made the channels and started the producers and the loop.
ElInit ==
    /\ evBuf = [k \in EventSources |-> <<>>]
    /\ evSent = [k \in EventSources |-> 0]
    /\ processed = {}
    /\ elPc = "select"
    /\ shutdownClosed = FALSE

\* ---------------------------------------------------------------------
\* Timeouts and cancellation example (RunTimeoutCancellation, longRunningTask).

\* Capacity of the channels result and ch.
ResultCap == 1

VARIABLES
    toPc,        \* RunTimeoutCancellation: "select1", "select2", "select3", "done"
    ctxDone,     \* ctx is done (timed out or cancelled)
    ctx2Done,    \* ctx2 is done (cancelled)
    resultBuf,   \* the buffer of the channel result
    ch2Buf,      \* the buffer of the channel ch
    taskPc,      \* longRunningTask: "select", "send" (result <- ...), "exit"
    task2Pc,     \* goroutine of example 2: "none", "sleep", "send" (ch <- ...), "exit"
    cancelPc,    \* goroutine of example 3: "none", "sleep", "exit"
    outcome      \* per example 1..3 what its select took: "none", "completed",
                 \* "timedOut", "cancelled"

toVars == <<toPc, ctxDone, ctx2Done, resultBuf, ch2Buf, taskPc, task2Pc, cancelPc, outcome>>

\* RunTimeoutCancellation has made ctx and result and started longRunningTask.
ToInit ==
    /\ toPc = "select1"
    /\ ctxDone = FALSE
    /\ ctx2Done = FALSE
    /\ resultBuf = <<>>
    /\ ch2Buf = <<>>
    /\ taskPc = "select"
    /\ task2Pc = "none"
    /\ cancelPc = "none"
    /\ outcome = [e \in 1..3 |-> "none"]

\* ---------------------------------------------------------------------
\* Pipeline example (RunPipeline, generateNumbers, square, addTen).

\* Number of numbers generateNumbers sends.
PlCount == 3

\* The generated numbers are drawn from 1..MaxNum.
MaxNum == 2

Nums == 1..MaxNum

VARIABLES
    genPc,            \* generateNumbers: "gen", "send" (out <- num), "exit"
    genI,             \* its loop variable i
    genNum,           \* the number it is sending
    generated,        \* the numbers it has generated, in order
    numbersClosed,    \* the channel numbers has been closed
    sqPc,             \* square: "recv", "send" (out <- squared), "exit"
    sqVal,            \* the value it is sending
    squaredClosed,    \* the channel squared has been closed
    atPc,             \* addTen: "recv", "send" (out <- result), "exit"
    atVal,            \* the value it is sending
    resultClosed,     \* the channel result has been closed
    plPc,             \* RunPipeline: "recv" (for num := range result), "done"
    emitted           \* the values RunPipeline has received, in order

plVars == <<genPc, genI, genNum, generated, numbersClosed, sqPc, sqVal, squaredClosed,
            atPc, atVal, resultClosed, plPc, emitted>>

\* RunPipeline has started the three stages and is at its range loop.
PlInit ==
    /\ genPc = "gen"
    /\ genI = 0
    /\ genNum = 0
    /\ generated = <<>>
    /\ numbersClosed = FALSE
    /\ sqPc = "recv"
    /\ sqVal = 0
    /\ squaredClosed = FALSE
    /\ atPc = "recv"
    /\ atVal = 0
    /\ resultClosed = FALSE
    /\ plPc = "recv"
    /\ emitted = <<>>





\* ---------------------------------------------------------------------
\* Singleflight example.

\* The variables of singleflight.Do.
sfVars == <<mu, calls, rec, pc, key, c, ret, counter, invoked, late, overlapped>>
\* What the steps of Do leave alone.
sfRest == <<abandoned, psVars, fanVars, poolVars, pcVars, mrVars, rpVars, apiVars,
            supVars, tbVars, elVars, toVars, plVars>>

vars == <<sfVars, sfRest>>

\* A caller is inside Do from its call until it returns or panics out.
InFlight(p) == pc[p] \notin {"idle", "done", "panicked"}
\* A caller's Do has ended once it returned or the panic left it.
Ended(p) == pc[p] \in {"done", "panicked"}

\* newSingleflight(): empty map, unlocked mutex; no goroutine has called Do.
SfInit ==
    /\ mu = 0
    /\ calls = <<>>
    /\ rec = <<>>
    /\ pc = [p \in Callers |-> "idle"]
    /\ key = [p \in Callers |-> 0]
    /\ c = [p \in Callers |-> 0]
    /\ ret = [p \in Callers |-> Nil]
    /\ counter = [k \in Keys |-> 0]
    /\ invoked = [p \in Callers |-> 0]
    /\ late = [k \in Keys |-> FALSE]
    /\ overlapped = [k \in Keys |-> FALSE]
    /\ abandoned = [p \in Callers |-> FALSE]

\* A goroutine calls sf.Do(k, fn); it next contends for sf.mu.
CallDo(p, k) ==
    /\ pc[p] = "idle"
    /\ pc' = [pc EXCEPT ![p] = "lock"]
    /\ key' = [key EXCEPT ![p] = k]
    /\ late' = [late EXCEPT ![k] = @ \/ \E q \in Callers : key[q] = k /\ Ended(q)]
    /\ overlapped' = [overlapped EXCEPT ![k] =
                          @ \/ \E q \in Callers : key[q] = k /\ InFlight(q)]
    /\ UNCHANGED <<mu, calls, rec, c, ret, counter, invoked>>
    /\ UNCHANGED sfRest

\* Lock as it would be if it did not wait for the lock to be free.
Lock_Barging(p) ==
    /\ pc[p] = "lock"
    /\ mu' = p
    /\ pc' = [pc EXCEPT ![p] = "lookup"]
    /\ UNCHANGED <<calls, rec, key, c, ret, counter, invoked, late, overlapped>>
    /\ UNCHANGED sfRest

\* sf.mu.Lock() at the top of Do.
Lock(p) ==
    /\ pc[p] = "lock"
    /\ mu = 0
    /\ mu' = p
    /\ pc' = [pc EXCEPT ![p] = "lookup"]
    /\ UNCHANGED <<calls, rec, key, c, ret, counter, invoked, late, overlapped>>
    /\ UNCHANGED sfRest

\* Join as it would be if the duplicate branch went on to run fn itself.
Join_AlsoRuns(p) ==
    /\ pc[p] = "lookup"
    /\ key[p] \in DOMAIN calls
    /\ c' = [c EXCEPT ![p] = calls[key[p]]]
    /\ rec' = [rec EXCEPT ![calls[key[p]]].dups = @ + 1]
    /\ pc' = [pc EXCEPT ![p] = "unlockNew"]
    /\ UNCHANGED <<mu, calls, key, ret, counter, invoked, late, overlapped>>
    /\ UNCHANGED sfRest

\* Join as it would be if the lookup ignored the key (one slot for all keys).
Join_AnyKey(p) ==
    /\ pc[p] = "lookup"
    /\ \E k \in DOMAIN calls :
          /\ c' = [c EXCEPT ![p] = calls[k]]
          /\ rec' = [rec EXCEPT ![calls[k]].dups = @ + 1]
    /\ pc' = [pc EXCEPT ![p] = "unlockDup"]
    /\ UNCHANGED <<mu, calls, key, ret, counter, invoked, late, overlapped>>
    /\ UNCHANGED sfRest

\* Join as it would be if it did not count the joining caller.
Join_NoCount(p) ==
    /\ pc[p] = "lookup"
    /\ key[p] \in DOMAIN calls
    /\ c' = [c EXCEPT ![p] = calls[key[p]]]
    /\ pc' = [pc EXCEPT ![p] = "unlockDup"]
    /\ UNCHANGED <<mu, calls, rec, key, ret, counter, invoked, late, overlapped>>
    /\ UNCHANGED sfRest

\* if c, exists := sf.calls[key]; exists { c.dups++ ...
Join(p) ==
    /\ pc[p] = "lookup"
    /\ key[p] \in DOMAIN calls
    /\ c' = [c EXCEPT ![p] = calls[key[p]]]
    /\ rec' = [rec EXCEPT ![calls[key[p]]].dups = @ + 1]
    /\ pc' = [pc EXCEPT ![p] = "unlockDup"]
    /\ UNCHANGED <<mu, calls, key, ret, counter, invoked, late, overlapped>>
    /\ UNCHANGED sfRest

\* Register as it would be without the existence check of the lookup.
Register_NoCheck(p) ==
    /\ pc[p] = "lookup"
    /\ c' = [c EXCEPT ![p] = p]
    /\ rec' = (p :> [val |-> Nil, err |-> Nil, wg |-> 1, dups |-> 0]) @@ rec
    /\ calls' = (key[p] :> p) @@ calls
    /\ pc' = [pc EXCEPT ![p] = "unlockNew"]
    /\ UNCHANGED <<mu, key, ret, counter, invoked, late, overlapped>>
    /\ UNCHANGED sfRest

\* Register as it would be without c.wg.Add(1).
Register_NoAdd(p) ==
    /\ pc[p] = "lookup"
    /\ key[p] \notin DOMAIN calls
    /\ c' = [c EXCEPT ![p] = p]
    /\ rec' = (p :> [val |-> Nil, err |-> Nil, wg |-> 0, dups |-> 0]) @@ rec
    /\ calls' = (key[p] :> p) @@ calls
    /\ pc' = [pc EXCEPT ![p] = "unlockNew"]
    /\ UNCHANGED <<mu, key, ret, counter, invoked, late, overlapped>>
    /\ UNCHANGED sfRest

\* c := &call{}; c.wg.Add(1); sf.calls[key] = c
Register(p) ==
    /\ pc[p] = "lookup"
    /\ key[p] \notin DOMAIN calls
    /\ c' = [c EXCEPT ![p] = p]
    /\ rec' = (p :> [val |-> Nil, err |-> Nil, wg |-> 1, dups |-> 0]) @@ rec
    /\ calls' = (key[p] :> p) @@ calls
    /\ pc' = [pc EXCEPT ![p] = "unlockNew"]
    /\ UNCHANGED <<mu, key, ret, counter, invoked, late, overlapped>>
    /\ UNCHANGED sfRest

\* sf.mu.Unlock() of the duplicate branch.
UnlockDup(p) ==
    /\ pc[p] = "unlockDup"
    /\ mu' = 0
    /\ pc' = [pc EXCEPT ![p] = "wait"]
    /\ UNCHANGED <<calls, rec, key, c, ret, counter, invoked, late, overlapped>>
    /\ UNCHANGED sfRest

\* Wait as it would be if the duplicate did not block on the wait group.
Wait_NoBlock(p) ==
    /\ pc[p] = "wait"
    /\ pc' = [pc EXCEPT ![p] = "retDup"]
    /\ UNCHANGED <<mu, calls, rec, key, c, ret, counter, invoked, late, overlapped>>
    /\ UNCHANGED sfRest

\* c.wg.Wait(): returns once the record's wait-group counter is zero.
Wait(p) ==
    /\ pc[p] = "wait"
    /\ rec[c[p]].wg = 0
    /\ pc' = [pc EXCEPT ![p] = "retDup"]
    /\ UNCHANGED <<mu, calls, rec, key, c, ret, counter, invoked, late, overlapped>>
    /\ UNCHANGED sfRest

\* ReturnDup as it would be if the duplicate branch returned nil.
ReturnDup_Nil(p) ==
    /\ pc[p] = "retDup"
    /\ ret' = [ret EXCEPT ![p] = Nil]
    /\ pc' = [pc EXCEPT ![p] = "done"]
    /\ UNCHANGED <<mu, calls, rec, key, c, counter, invoked, late, overlapped>>
    /\ UNCHANGED sfRest

\* return c.val of the duplicate branch.
ReturnDup(p) ==
    /\ pc[p] = "retDup"
    /\ ret' = [ret EXCEPT ![p] = rec[c[p]].val]
    /\ pc' = [pc EXCEPT ![p] = "done"]
    /\ UNCHANGED <<mu, calls, rec, key, c, counter, invoked, late, overlapped>>
    /\ UNCHANGED sfRest

\* UnlockNew as it would be if the lock were kept while fn runs.
UnlockNew_KeepsLock(p) ==
    /\ pc[p] = "unlockNew"
    /\ pc' = [pc EXCEPT ![p] = "invoke"]
    /\ UNCHANGED <<mu, calls, rec, key, c, ret, counter, invoked, late, overlapped>>
    /\ UNCHANGED sfRest

\* sf.mu.Unlock() after the registration.
UnlockNew(p) ==
    /\ pc[p] = "unlockNew"
    /\ mu' = 0
    /\ pc' = [pc EXCEPT ![p] = "invoke"]
    /\ UNCHANGED <<calls, rec, key, c, ret, counter, invoked, late, overlapped>>
    /\ UNCHANGED sfRest

\* fn() is entered: the operation's side effect (its counter) happens.
InvokeFn(p) ==
    /\ pc[p] = "invoke"
    /\ counter' = [counter EXCEPT ![key[p]] = @ + 1]
    /\ invoked' = [invoked EXCEPT ![p] = @ + 1]
    /\ pc' = [pc EXCEPT ![p] = "running"]
    /\ UNCHANGED <<mu, calls, rec, key, c, ret, late, overlapped>>
    /\ UNCHANGED sfRest

\* FnReturn as it would be if Do ran fn again after an error.
FnReturn_Retry(p) ==
    /\ pc[p] = "running"
    /\ \E out \in {<<ValOf(p), Nil>>, <<Nil, ErrOf(p)>>} :
          /\ rec' = [rec EXCEPT ![c[p]].val = out[1], ![c[p]].err = out[2]]
          /\ pc' = [pc EXCEPT ![p] = IF out[2] = Nil THEN "signal" ELSE "invoke"]
    /\ UNCHANGED <<mu, calls, key, c, ret, counter, invoked, late, overlapped>>
    /\ UNCHANGED sfRest

\* c.val, c.err = fn(): fn returns a value, or a nil value and an error.
FnReturn(p) ==
    /\ pc[p] = "running"
    /\ \E out \in {<<ValOf(p), Nil>>, <<Nil, ErrOf(p)>>} :
          rec' = [rec EXCEPT ![c[p]].val = out[1], ![c[p]].err = out[2]]
    /\ pc' = [pc EXCEPT ![p] = "signal"]
    /\ UNCHANGED <<mu, calls, key, c, ret, counter, invoked, late, overlapped>>
    /\ UNCHANGED sfRest

\* fn() panics: Do has no recover and no deferred call, so the panic unwinds
\* out of Do at once; wg.Done and the cleanup are never reached.
FnPanic(p) ==
    /\ pc[p] = "running"
    /\ pc' = [pc EXCEPT ![p] = "panicked"]
    /\ UNCHANGED <<mu, calls, rec, key, c, ret, counter, invoked, late, overlapped>>
    /\ UNCHANGED sfRest

\* Done as it would be if the executor went on without c.wg.Done().
Done_NoSignal(p) ==
    /\ pc[p] = "signal"
    /\ pc' = [pc EXCEPT ![p] = "relock"]
    /\ UNCHANGED <<mu, calls, rec, key, c, ret, counter, invoked, late, overlapped>>
    /\ UNCHANGED sfRest

\* c.wg.Done()
Done(p) ==
    /\ pc[p] = "signal"
    /\ rec' = [rec EXCEPT ![c[p]].wg = @ - 1]
    /\ pc' = [pc EXCEPT ![p] = "relock"]
    /\ UNCHANGED <<mu, calls, key, c, ret, counter, invoked, late, overlapped>>
    /\ UNCHANGED sfRest

\* sf.mu.Lock() of the cleanup.
Relock(p) ==
    /\ pc[p] = "relock"
    /\ mu = 0
    /\ mu' = p
    /\ pc' = [pc EXCEPT ![p] = "delete"]
    /\ UNCHANGED <<calls, rec, key, c, ret, counter, invoked, late, overlapped>>
    /\ UNCHANGED sfRest

\* Delete as it would be if the cleanup left the entry in the map.
Delete_Forgotten(p) ==
    /\ pc[p] = "delete"
    /\ pc' = [pc EXCEPT ![p] = "unlockEnd"]
    /\ UNCHANGED <<mu, calls, rec, key, c, ret, counter, invoked, late, overlapped>>
    /\ UNCHANGED sfRest

\* delete(sf.calls, key): unconditional, a no-op when the key is absent.
Delete(p) ==
    /\ pc[p] = "delete"
    /\ calls' = [k \in DOMAIN calls \ {key[p]} |-> calls[k]]
    /\ pc' = [pc EXCEPT ![p] = "unlockEnd"]
    /\ UNCHANGED <<mu, rec, key, c, ret, counter, invoked, late, overlapped>>
    /\ UNCHANGED sfRest

\* sf.mu.Unlock() of the cleanup.
UnlockEnd(p) ==
    /\ pc[p] = "unlockEnd"
    /\ mu' = 0
    /\ pc' = [pc EXCEPT ![p] = "retNew"]
    /\ UNCHANGED <<calls, rec, key, c, ret, counter, invoked, late, overlapped>>
    /\ UNCHANGED sfRest

\* return c.val of the executing branch (c.err is not returned).
ReturnNew(p) ==
    /\ pc[p] = "retNew"
    /\ ret' = [ret EXCEPT ![p] = rec[c[p]].val]
    /\ pc' = [pc EXCEPT ![p] = "done"]
    /\ UNCHANGED <<mu, calls, rec, key, c, counter, invoked, late, overlapped>>
    /\ UNCHANGED sfRest

Next ==
    \E p \in Callers :
        \/ \E k \in Keys : CallDo(p, k)
        \/ Lock(p)
        \/ Join(p)
        \/ Register(p)
        \/ UnlockDup(p)
        \/ Wait(p)
        \/ ReturnDup(p)
        \/ UnlockNew(p)
        \/ InvokeFn(p)
        \/ FnReturn(p)
        \/ FnPanic(p)
        \/ Done(p)
        \/ Relock(p)
        \/ Delete(p)
        \/ UnlockEnd(p)
        \/ ReturnNew(p)

\* The state after construction of every example.
Init == SfInit /\ PsInit /\ FanInit /\ PoolInit /\ PcInit /\ MrIdle /\ RpInit
    /\ ApiInit /\ SupInit /\ TbInit /\ ElInit /\ ToInit /\ PlInit

Spec == Init /\ [][Next]_vars

\* A duplicate caller's own timeout fires while its Do call waits: the caller
\* stops listening.  Do has no cancellation, so the goroutine inside Do is
\* untouched and goes on waiting on the record.
Abandon(p) ==
    /\ pc[p] = "wait"
    /\ ~abandoned[p]
    /\ abandoned' = [abandoned EXCEPT ![p] = TRUE]
    /\ UNCHANGED <<sfVars, psVars, fanVars, poolVars, pcVars, mrVars, rpVars, apiVars,
                   supVars, tbVars, elVars, toVars, plVars>>

\* The steps of caller p inside Do when fn returns rather than panics.
DoStep(p) ==
    \/ Lock(p)
    \/ Join(p)
    \/ Register(p)
    \/ UnlockDup(p)
    \/ Wait(p)
    \/ ReturnDup(p)
    \/ UnlockNew(p)
    \/ InvokeFn(p)
    \/ FnReturn(p)
    \/ Done(p)
    \/ Relock(p)
    \/ Delete(p)
    \/ UnlockEnd(p)
    \/ ReturnNew(p)

NextNoPanic ==
    \E p \in Callers :
        \/ \E k \in Keys : CallDo(p, k)
        \/ DoStep(p)

\* Do called with operations that always return, every goroutine inside Do
\* being scheduled again and again.
SpecNoPanic == Init /\ [][NextNoPanic]_vars /\ \A p \in Callers : WF_vars(DoStep(p))

NextAbandon ==
    \/ Next
    \/ \E p \in Callers : Abandon(p)

\* Do called by goroutines that may give up waiting.
SpecAbandon == Init /\ [][NextAbandon]_vars

TypeOK ==
    /\ mu \in Callers \cup {0}
    /\ DOMAIN calls \subseteq Keys
    /\ \A k \in DOMAIN calls : calls[k] \in DOMAIN rec
    /\ DOMAIN rec \subseteq Callers
    /\ \A p \in Callers : c[p] \in DOMAIN rec \cup {0}
    /\ \A p \in Callers : key[p] \in Keys \cup {0}
    /\ \A k \in Keys : late[k] \in BOOLEAN /\ overlapped[k] \in BOOLEAN

\* ---------------------------------------------------------------------
\* Vocabulary of the properties.

\* The callers that called Do with key k.
SameKey(k) == {p \in Callers : key[p] = k}
\* p took the create branch of Do: its local c is the record it allocated.
Created(p) == c[p] = p
\* p took the duplicate branch of Do: its local c is another caller's record.
Joined(p) == c[p] # 0 /\ c[p] # p
\* p registered a record and has not yet executed its delete.
IsExecutor(p) == Created(p) /\ pc[p] \notin {"unlockEnd", "retNew", "done"}
\* Every call for key k has returned, and there was at least one.
AllReturned(k) == SameKey(k) # {} /\ \A p \in SameKey(k) : pc[p] = "done"
\* The calls for key k pairwise overlapped in time.
Concurrent(k) == ~late[k]

\* C1: for each key at most one caller is the executor (registered a record
\* and not yet deleted it), at most one invocation of fn for the key is in
\* flight, and the registry entry of the key is that executor's record, so no
\* second caller took the create branch while the entry existed.
C1_AtMostOneExecutor ==
    \A k \in Keys :
        /\ Cardinality({p \in SameKey(k) : IsExecutor(p)}) <= 1
        /\ Cardinality({p \in SameKey(k) : pc[p] = "running"}) <= 1
        /\ \A p \in SameKey(k) : IsExecutor(p) => (k \in DOMAIN calls /\ calls[k] = p)

\* C1 witness: fn runs for a key while another caller of that key has found
\* the entry and waits on it.
C1_Witness ==
    \E p, q \in Callers :
        /\ p # q /\ key[p] = key[q]
        /\ pc[p] = "running" /\ pc[q] = "wait" /\ c[q] = p

\* C2: every record is invoked for exactly once, by its creator; every call
\* past its lookup created exactly one record or joined exactly one; per key
\* the number of invocations is the number of records whose creator reached
\* fn; no call invokes fn twice.
C2_OneInvocationPerRecord ==
    /\ \A p \in Callers : invoked[p] <= 1
    /\ \A p \in Callers : invoked[p] = 1 => (Created(p) /\ p \in DOMAIN rec)
    /\ \A r \in DOMAIN rec :
          /\ Created(r)
          /\ (pc[r] \notin {"unlockNew", "invoke"}) => invoked[r] = 1
    /\ \A p \in Callers :
          (pc[p] \notin {"idle", "lock", "lookup"}) => (c[p] \in DOMAIN rec)
    /\ \A k \in Keys :
          counter[k] = Cardinality({r \in DOMAIN rec :
                           key[r] = k /\ pc[r] \notin {"unlockNew", "invoke"}})

\* C2 witness: two generations of one key have both run, all calls are over.
C2_Witness ==
    \E k \in Keys :
        /\ AllReturned(k)
        /\ counter[k] = 2
        /\ Cardinality({r \in DOMAIN rec : key[r] = k}) = 2

C5_ReturnIsRecordValue ==
    /\ \A p \in Callers :
          pc[p] = "done" =>
              /\ ret[p] = rec[c[p]].val
              /\ ret[p] \in {ValOf(c[p]), Nil}
    /\ \A p, q \in Callers :
          (pc[p] = "done" /\ pc[q] = "done" /\ c[p] = c[q]) => ret[p] = ret[q]

\* C5 witness: the executor and a duplicate of its record both returned the
\* executor's value.
C5_Witness ==
    \E p, q \in Callers :
        /\ p # q /\ Created(p) /\ c[q] = p
        /\ pc[p] = "done" /\ pc[q] = "done"
        /\ ret[p] = ValOf(p) /\ ret[q] = ValOf(p)

\* C6: a caller that found an entry never invokes fn: it counts itself on the
\* record, releases the lock before it waits, and returns the record's value
\* only after the record completed.
C6_DuplicateNeverInvokes ==
    \A p \in Callers :
        Joined(p) =>
            /\ invoked[p] = 0
            /\ pc[p] \in {"unlockDup", "wait", "retDup", "done"}
            /\ rec[c[p]].dups >= 1
            /\ (pc[p] = "unlockDup") = (mu = p)
            /\ pc[p] \in {"retDup", "done"} => rec[c[p]].wg = 0
            /\ pc[p] = "done" => ret[p] = rec[c[p]].val

\* C6 witness: a duplicate returned another caller's value.
C6_Witness ==
    \E p \in Callers :
        Joined(p) /\ pc[p] = "done" /\ ret[p] = ValOf(c[p]) /\ invoked[p] = 0

\* C7: when fn returned an error, every caller of that generation receives
\* that error from Do.
C7_ErrorPropagated ==
    \A p \in Callers :
        (pc[p] = "done" /\ rec[c[p]].err # Nil) => ret[p] = rec[c[p]].err

\* C8: a panic of fn is caught inside Do: no panic leaves Do, and the record
\* of an executor that left Do has fired its completion signal.
C8_PanicContained ==
    /\ \A p \in Callers : pc[p] # "panicked"
    /\ \A r \in DOMAIN rec : ~InFlight(r) => rec[r].wg = 0

\* C9: after fn panicked for a key, the executor's registry entry is deleted.
C9_PanicCleansRegistry ==
    \A p \in Callers :
        pc[p] = "panicked" => ~(key[p] \in DOMAIN calls /\ calls[key[p]] = p)

\* The calls for key k were strictly sequential: none began while another
\* call for k was in flight.
Sequential(k) == ~overlapped[k]

\* C10: a call that looks its key up when every other call made for the key
\* has returned (at least one has) finds no registry entry, so it will invoke
\* fn again; calls of one key that never overlapped invoked fn once each.
C10_NoCrossGenerationCaching ==
    /\ \A p \in Callers :
          ( /\ pc[p] = "lookup"
            /\ SameKey(key[p]) \ {p} # {}
            /\ \A q \in SameKey(key[p]) \ {p} : pc[q] = "done" )
          => key[p] \notin DOMAIN calls
    /\ \A k \in Keys :
          (AllReturned(k) /\ Sequential(k)) =>
              /\ counter[k] = Cardinality(SameKey(k))
              /\ \A p \in SameKey(k) : Created(p) /\ ret[p] \in {ValOf(p), Nil}

\* C10 witness: a call made after an earlier call of its key had returned,
\* with none in flight, ran fn itself and returned its own value.
C10_Witness ==
    \E p, q \in Callers :
        /\ p # q /\ key[p] = key[q] /\ key[p] \in Keys
        /\ Sequential(key[p]) /\ AllReturned(key[p])
        /\ pc[q] = "done" /\ ret[q] = ValOf(q)
        /\ pc[p] = "done" /\ ret[p] = ValOf(p)
        /\ counter[key[p]] >= 2

\* C11: whenever no Do call for a key is in progress, the registry has no
\* entry for the key; the executor has deleted its entry before it returns.
C11_RegistryCleanWhenIdle ==
    /\ \A k \in Keys :
          (\A p \in SameKey(k) : ~InFlight(p)) => k \notin DOMAIN calls
    /\ \A p \in Callers :
          (Created(p) /\ pc[p] \in {"retNew", "done"}) =>
              ~(key[p] \in DOMAIN calls /\ calls[key[p]] = p)

\* C12: a caller only ever joins and waits on a record of its own key, a
\* caller whose key nobody else uses runs fn itself exactly once, and a
\* running fn of another key never keeps a caller from registering.
C12_KeyIndependence ==
    /\ \A p \in Callers : Joined(p) => key[c[p]] = key[p]
    /\ \A k \in DOMAIN calls : key[calls[k]] = k
    /\ \A p \in Callers :
          (key[p] \in Keys /\ SameKey(key[p]) = {p}) =>
              /\ pc[p] \notin {"unlockDup", "wait", "retDup"}
              /\ pc[p] \notin {"idle", "lock", "lookup"} => Created(p)
              /\ pc[p] = "done" => (invoked[p] = 1 /\ counter[key[p]] = 1)
    /\ \A p, q \in Callers :
          (pc[p] = "lookup" /\ pc[q] = "running" /\ key[p] # key[q]
             /\ SameKey(key[p]) = {p}) => key[p] \notin DOMAIN calls

\* C12 witness: the operations of two different keys are in flight at once.
C12_Witness ==
    \E p, q \in Callers :
        /\ key[p] # key[q]
        /\ pc[p] = "running" /\ pc[q] = "running"

\* C13: the registry lock is held exactly in the lookup/register section and
\* in the delete section; a caller that runs fn or waits on a record, or has
\* left Do, does not hold it.
C13_LockOnlyInCriticalSections ==
    \A p \in Callers :
        (mu = p) = (pc[p] \in {"lookup", "unlockDup", "unlockNew",
                               "delete", "unlockEnd"})

\* C13 witness: one caller runs fn, one waits on its record, and a third
\* holds the lock meanwhile.
C13_Witness ==
    \E p, q, r \in Callers :
        /\ pc[p] = "running" /\ pc[q] = "wait" /\ c[q] = p
        /\ mu = r /\ pc[r] = "lookup"

\* C14: a duplicate that is past its wait has a record whose executor has
\* written the outcome and fired the completion signal.
C14_DuplicateReadsAfterWrite ==
    \A p \in Callers :
        (Joined(p) /\ pc[p] \in {"retDup", "done"}) =>
            /\ pc[c[p]] \in {"relock", "delete", "unlockEnd", "retNew", "done"}
            /\ rec[c[p]].wg = 0
            /\ rec[c[p]].val # Nil \/ rec[c[p]].err # Nil

\* C14 witness: a duplicate returned while its executor is still in its
\* cleanup, after the executor's write.
C14_Witness ==
    \E p \in Callers :
        /\ Joined(p) /\ pc[p] = "done"
        /\ pc[c[p]] = "relock"
        /\ ret[p] = ValOf(c[p])

Written(r) == rec[r].val # Nil \/ rec[r].err # Nil

\* A step changes the outcome stored in record r.
WritesOutcome(r) == rec'[r].val # rec[r].val \/ rec'[r].err # rec[r].err

\* Every step that changes a record's outcome is its creator's return from
\* fn, on a record not yet written and not yet signalled, and leads on to
\* the signal.
C22_WriteStep ==
    \A r \in DOMAIN rec :
        WritesOutcome(r) =>
            /\ c[r] = r
            /\ pc[r] = "running" /\ pc'[r] = "signal"
            /\ rec[r].wg = 1
            /\ ~Written(r)

\* A record is unwritten until its creator returns from fn and written once
\* its completion signal has fired.
C22_WrittenBeforeSignal ==
    \A r \in DOMAIN rec :
        /\ pc[r] \in {"unlockNew", "invoke", "running", "panicked"} => ~Written(r)
        /\ rec[r].wg = 0 => Written(r)

\* C22: val and err of a call record are written in one step only, by the
\* caller that created the record, before the completion signal fires, and
\* no step changes them afterwards.
C22_OutcomeWrittenOnce == []C22_WrittenBeforeSignal /\ [][C22_WriteStep]_vars

\* C22 witness: a record holds an error outcome, its signal has fired and a
\* duplicate has returned from it.
C22_Witness ==
    \E r \in DOMAIN rec, q \in Callers :
        /\ rec[r].wg = 0 /\ rec[r].err = ErrOf(r)
        /\ Joined(q) /\ c[q] = r /\ pc[q] = "done"

\* Every step that changes a record's wait-group counter is Done by the
\* record's creator and takes it from 1 to 0.
C23_SignalStep ==
    \A r \in DOMAIN rec :
        rec'[r].wg # rec[r].wg =>
            /\ c[r] = r
            /\ pc[r] = "signal" /\ pc'[r] = "relock"
            /\ rec[r].wg = 1 /\ rec'[r].wg = 0

\* The counter is 1 until the creator has passed Done and 0 from then on.
C23_CounterShape ==
    \A r \in DOMAIN rec :
        /\ rec[r].wg \in {0, 1}
        /\ (rec[r].wg = 0) = (pc[r] \in {"relock", "delete", "unlockEnd", "retNew", "done"})

\* C23: the completion signal of a record fires in one step only, taken by
\* the record's creator; the counter goes from 1 to 0 and is never negative;
\* no duplicate fires it.
C23_SignalFiredOnce == []C23_CounterShape /\ [][C23_SignalStep]_vars

\* C23 witness: the signal of a record has fired while two duplicates are
\* still at their wait on it.
C23_Witness ==
    \E r \in DOMAIN rec, p, q \in Callers :
        /\ p # q /\ Joined(p) /\ Joined(q) /\ c[p] = r /\ c[q] = r
        /\ pc[p] = "wait" /\ pc[q] = "wait"
        /\ rec[r].wg = 0

\* Number of steps a caller at position s of Do has at most before it is
\* done.
Rank(s) ==
    CASE s = "done" -> 0
      [] s \in {"retDup", "retNew"} -> 1
      [] s \in {"wait", "unlockEnd"} -> 2
      [] s \in {"unlockDup", "delete"} -> 3
      [] s = "relock" -> 4
      [] s = "signal" -> 5
      [] s = "running" -> 6
      [] s = "invoke" -> 7
      [] s = "unlockNew" -> 8
      [] s = "lookup" -> 9
      [] s = "lock" -> 10
      [] s = "idle" -> 11

\* Every step brings one caller nearer to its return and sets none back.
C24_Progress ==
    /\ \A p \in Callers : Rank(pc'[p]) <= Rank(pc[p])
    /\ \E p \in Callers : Rank(pc'[p]) < Rank(pc[p])

\* Who can go on: the executor of a record is never at a wait; a duplicate
\* whose record's signal has fired can leave its wait, and while the signal
\* has not fired the record's executor is still on its way to firing it; and
\* as long as some call has not returned, some caller inside Do can step.
C24_NeverStuck ==
    /\ \A p \in Callers : pc[p] \in {"wait", "retDup"} => Joined(p)
    /\ \A p \in Callers :
          pc[p] = "wait" =>
              IF rec[c[p]].wg = 0
              THEN ENABLED Wait(p)
              ELSE pc[c[p]] \in {"unlockNew", "invoke", "running", "signal"}
    /\ (\E p \in Callers : pc[p] \notin {"idle", "done"}) =>
          \E p \in Callers : ENABLED DoStep(p)

\* C24: when no operation panics and every one returns, every call of Do
\* returns under fair scheduling. Every step of a behaviour lowers a bounded
\* rank, so a behaviour has finitely many steps; fairness lets it stop only
\* where no caller can step; and in such a state every call has returned.
C24_EveryCallReturns == []C24_NeverStuck /\ [][C24_Progress]_vars

\* C24 witness: all callers have returned, two of them as duplicates that
\* were released by the same signal.
C24_Witness ==
    /\ \A p \in Callers : pc[p] = "done"
    /\ \E p, q \in Callers : p # q /\ Joined(p) /\ Joined(q) /\ c[p] = c[q]

\* The duplicate callers of record r.
Duplicates(r) == {p \in Callers : c[p] = r /\ p # r}

\* Every step that changes a record's dups is taken by a caller that holds
\* the lock, joins the record and adds one.
C25_CountStep ==
    \A r \in DOMAIN rec :
        rec'[r].dups # rec[r].dups =>
            \E p \in Callers :
                /\ mu = p /\ mu' = p
                /\ pc[p] = "lookup" /\ pc'[p] = "unlockDup"
                /\ c'[p] = r /\ p # r
                /\ rec'[r].dups = rec[r].dups + 1

\* The branch of the lookup is decided by the registry alone, and the end of
\* a wait by the wait-group counter alone.
C25_BranchStep ==
    \A p \in Callers :
        /\ (pc[p] = "lookup" /\ pc'[p] # "lookup") =>
              (pc'[p] = "unlockDup") = (key[p] \in DOMAIN calls)
        /\ (pc[p] = "wait" /\ pc'[p] # "wait") => rec[c[p]].wg = 0

\* dups of a record is the number of its duplicate callers.
C25_CountIsDuplicates ==
    \A r \in DOMAIN rec : rec[r].dups = Cardinality(Duplicates(r))

\* C25: dups changes only under the registry lock, by one for each caller
\* that joins, so it equals the number of duplicates of the record; which
\* branch a caller takes depends on the registry and the counter only.
C25_JoinCounter ==
    /\ []C25_CountIsDuplicates
    /\ [][C25_CountStep /\ C25_BranchStep]_vars

\* C25 witness: a record counts two duplicates.
C25_Witness ==
    \E r \in DOMAIN rec : rec[r].dups = 2 /\ Cardinality(Duplicates(r)) = 2

\* Every step that removes an entry of the registry is taken by the caller
\* whose record the entry points at, in its cleanup, under the lock.
C26_DeleteStep ==
    \A k \in DOMAIN calls :
        k \notin DOMAIN calls' =>
            \E p \in Callers :
                /\ pc[p] = "delete" /\ mu = p
                /\ key[p] = k /\ calls[k] = p /\ c[p] = p

\* A caller about to delete finds its own record under its key.
C26_OwnEntryAtDelete ==
    \A p \in Callers :
        pc[p] = "delete" => (key[p] \in DOMAIN calls /\ calls[key[p]] = p)

\* C26: the cleanup delete of an executing caller removes the entry that
\* points at the record this caller created, never the record of another
\* caller.
C26_DeleteOwnRecordOnly == []C26_OwnEntryAtDelete /\ [][C26_DeleteStep]_vars

\* C26 witness: a first executor has cleaned up and returned, and the
\* registry now holds the record of a later executor for the same key.
C26_Witness ==
    \E p, q \in Callers :
        /\ p # q /\ key[p] \in Keys /\ key[p] = key[q]
        /\ Created(p) /\ pc[p] = "done"
        /\ key[q] \in DOMAIN calls /\ calls[key[q]] = q

\* The callers inside a section that reads or writes the registry.
InCritical == {p \in Callers : pc[p] \in {"lookup", "unlockDup", "unlockNew",
                                          "delete", "unlockEnd"}}

\* Every step that changes the registry is taken by the holder of the lock
\* at its lookup or its delete.
C27_RegistryStep ==
    calls' # calls =>
        /\ mu \in Callers
        /\ mu' = mu
        /\ pc[mu] \in {"lookup", "delete"}
        /\ pc'[mu] # pc[mu]

\* A caller at its lookup or its delete holds the lock, and one caller at
\* most is inside a section that uses the registry.
C27_OneInCritical ==
    /\ \A p \in Callers : pc[p] \in {"lookup", "delete"} => mu = p
    /\ Cardinality(InCritical) <= 1

\* C27: every lookup, insert and delete on the registry is done by the
\* caller that holds the registry lock, and no two callers are in such a
\* section at the same time.
C27_RegistryUnderLock == []C27_OneInCritical /\ [][C27_RegistryStep]_vars

\* C27 witness: a caller is at its delete while two others wait for the lock.
C27_Witness ==
    \E p, q, r \in Callers :
        /\ q # r
        /\ pc[p] = "delete" /\ mu = p
        /\ pc[q] = "lock" /\ pc[r] = "lock"

\* ---------------------------------------------------------------------
\* Publish-subscribe example: broadcaster.subscribe, publish, close and the
\* goroutines of RunPubSub.

\* What the steps of the publish-subscribe example leave alone.
psRest == <<sfVars, abandoned, fanVars, poolVars, pcVars, mrVars, rpVars, apiVars,
            supVars, tbVars, elVars, toVars, plVars>>

\* The messages numbered a..b in order (empty when b < a).
Range(a, b) == [i \in 1..(b - a + 1) |-> a + i - 1]

\* The place of subscriber s's channel in b.subscribers.
Pos(s) == CHOOSE i \in 1..Len(subscribers) : subscribers[i] = s

\* b.subscribe(): under b.mu, make a channel of capacity 2 and append it.
Subscribe(s) ==
    /\ subPc[s] = "new"
    /\ ~bmu
    /\ subscribers' = Append(subscribers, s)
    /\ subPc' = [subPc EXCEPT ![s] = "recv"]
    /\ subAt' = [subAt EXCEPT ![s] = pubMsg - 1]
    /\ UNCHANGED <<bmu, bclosed, chBuf, chClosed, pubPc, pubMsg, pubIdx, received>>
    /\ UNCHANGED psRest

\* b.publish(msg): b.mu.Lock(); if b.closed { return }; else enter the loop.
PublishBegin ==
    /\ pubPc = "publish"
    /\ ~bmu
    /\ IF bclosed
          THEN /\ pubMsg' = pubMsg + 1
               /\ pubPc' = IF pubMsg + 1 > NumMsgs THEN "close" ELSE "publish"
               /\ UNCHANGED <<bmu, pubIdx>>
          ELSE /\ bmu' = TRUE
               /\ pubIdx' = 1
               /\ pubPc' = "send"
               /\ UNCHANGED pubMsg
    /\ UNCHANGED <<subscribers, bclosed, chBuf, chClosed, subPc, received, subAt>>
    /\ UNCHANGED psRest

\* PublishSend as it would be with a non-blocking send that drops the
\* message when the subscriber's buffer is full.
PublishSend_DropWhenFull ==
    /\ pubPc = "send"
    /\ pubIdx <= Len(subscribers)
    /\ chBuf' = IF Len(chBuf[subscribers[pubIdx]]) < ChanCap
                   THEN [chBuf EXCEPT ![subscribers[pubIdx]] = Append(@, pubMsg)]
                   ELSE chBuf
    /\ pubIdx' = pubIdx + 1
    /\ UNCHANGED <<bmu, subscribers, bclosed, chClosed, pubPc, pubMsg, subPc,
                   received, subAt>>
    /\ UNCHANGED psRest

\* ch <- msg inside the loop of publish: blocks while the buffer is full.
PublishSend ==
    /\ pubPc = "send"
    /\ pubIdx <= Len(subscribers)
    /\ Len(chBuf[subscribers[pubIdx]]) < ChanCap
    /\ chBuf' = [chBuf EXCEPT ![subscribers[pubIdx]] = Append(@, pubMsg)]
    /\ pubIdx' = pubIdx + 1
    /\ UNCHANGED <<bmu, subscribers, bclosed, chClosed, pubPc, pubMsg, subPc,
                   received, subAt>>
    /\ UNCHANGED psRest

\* The loop of publish is over: the deferred b.mu.Unlock() runs and the
\* publisher goroutine goes on to its next message or to b.close().
PublishEnd ==
    /\ pubPc = "send"
    /\ pubIdx > Len(subscribers)
    /\ bmu' = FALSE
    /\ pubMsg' = pubMsg + 1
    /\ pubPc' = IF pubMsg + 1 > NumMsgs THEN "close" ELSE "publish"
    /\ UNCHANGED <<subscribers, bclosed, chBuf, chClosed, pubIdx, subPc,
                   received, subAt>>
    /\ UNCHANGED psRest

\* b.close(): under b.mu, close every subscriber channel once, set b.closed.
Close ==
    /\ pubPc = "close"
    /\ ~bmu
    /\ IF bclosed
          THEN UNCHANGED <<chClosed, bclosed>>
          ELSE /\ chClosed' = [s \in Subs |->
                                  chClosed[s] \/ \E i \in 1..Len(subscribers) :
                                                     subscribers[i] = s]
               /\ bclosed' = TRUE
    /\ pubPc' = "done"
    /\ UNCHANGED <<bmu, subscribers, chBuf, pubMsg, pubIdx, subPc, received, subAt>>
    /\ UNCHANGED psRest

\* for msg := range ch: one message is received.
Receive(s) ==
    /\ subPc[s] = "recv"
    /\ chBuf[s] # <<>>
    /\ received' = [received EXCEPT ![s] = Append(@, Head(chBuf[s]))]
    /\ chBuf' = [chBuf EXCEPT ![s] = Tail(@)]
    /\ UNCHANGED <<bmu, subscribers, bclosed, chClosed, pubPc, pubMsg, pubIdx,
                   subPc, subAt>>
    /\ UNCHANGED psRest

\* for msg := range ch ends: the channel is closed and drained.
SubscriberExit(s) ==
    /\ subPc[s] = "recv"
    /\ chBuf[s] = <<>>
    /\ chClosed[s]
    /\ subPc' = [subPc EXCEPT ![s] = "done"]
    /\ UNCHANGED <<bmu, subscribers, bclosed, chBuf, chClosed, pubPc, pubMsg,
                   pubIdx, received, subAt>>
    /\ UNCHANGED psRest

PsNext ==
    \/ \E s \in Subs : Subscribe(s)
    \/ PublishBegin
    \/ PublishSend
    \/ PublishEnd
    \/ Close
    \/ \E s \in Subs : Receive(s)
    \/ \E s \in Subs : SubscriberExit(s)

SpecPubSub == Init /\ [][PsNext]_vars

\* The number of the last message that publish has sent to s's channel.
LastSent(s) ==
    IF pubPc = "send" /\ Pos(s) < pubIdx THEN pubMsg ELSE pubMsg - 1

\* C16: what a subscriber has received, followed by what waits in its
\* channel, is exactly the messages published since it subscribed, in
\* publish order; a subscriber whose loop ended has received every message
\* published from its subscription to the close.
C16_BroadcastDelivery ==
    \A s \in Subs :
        subPc[s] # "new" =>
            /\ received[s] \o chBuf[s] = Range(subAt[s] + 1, LastSent(s))
            /\ Len(chBuf[s]) <= ChanCap
            /\ subPc[s] = "done" =>
                  (pubPc = "done" /\ received[s] = Range(subAt[s] + 1, NumMsgs))

\* C16 witness: a subscriber registered from the start ended with all
\* messages in order, one registered after the first publish with the rest.
C16_Witness ==
    \E s, t \in Subs :
        /\ s # t
        /\ subPc[s] = "done" /\ received[s] = Range(1, NumMsgs)
        /\ subPc[t] = "done" /\ subAt[t] = 1 /\ received[t] = Range(2, NumMsgs)

\* C28: publish never waits for a subscriber: whenever publish is at a send
\* of its loop, the subscriber's channel has room, so the send goes through
\* at once and publish goes on to release b.mu.
C28_PublishNeverWaits ==
    (pubPc = "send" /\ pubIdx <= Len(subscribers)) =>
        Len(chBuf[subscribers[pubIdx]]) < ChanCap

\* ---------------------------------------------------------------------
\* Fan-out/fan-in example: the goroutines of generateWorkItems, fanOut
\* (workers and closer), fanIn (forwarders and closer) and RunFan's loop.

\* What the steps of the fan-out/fan-in example leave alone.
fanRest == <<sfVars, abandoned, psVars, poolVars, pcVars, mrVars, rpVars, apiVars,
             supVars, tbVars, elVars, toVars, plVars>>

\* jobs is unbuffered: the generator's send out <- item and worker w's
\* receive in range jobs happen together; the worker then builds its result.
WorkerTake(w) ==
    /\ genNext < NumItems
    /\ fwState[w] = "recv"
    /\ fwJob' = [fwJob EXCEPT ![w] = genNext]
    /\ fwState' = [fwState EXCEPT ![w] = "send"]
    /\ genNext' = genNext + 1
    /\ UNCHANGED <<genClosed, fanClosed, fdState, fdRes, outClosed, output, consDone>>
    /\ UNCHANGED fanRest

\* The generator's loop is over: defer close(out).
GenClose ==
    /\ genNext >= NumItems
    /\ ~genClosed
    /\ genClosed' = TRUE
    /\ UNCHANGED <<genNext, fwState, fwJob, fanClosed, fdState, fdRes, outClosed,
                   output, consDone>>
    /\ UNCHANGED fanRest

\* range jobs ends for worker w: jobs is closed; defer wg.Done().
WorkerExit(w) ==
    /\ fwState[w] = "recv"
    /\ genClosed
    /\ fwState' = [fwState EXCEPT ![w] = "exit"]
    /\ UNCHANGED <<genNext, genClosed, fwJob, fanClosed, fdState, fdRes, outClosed,
                   output, consDone>>
    /\ UNCHANGED fanRest

\* fanOut's closer: after wg.Wait(), close the worker channels one by one.
FanOutClose ==
    /\ \A w \in FanWorkers : fwState[w] = "exit"
    /\ fanClosed < NumFanWorkers
    /\ fanClosed' = fanClosed + 1
    /\ UNCHANGED <<genNext, genClosed, fwState, fwJob, fdState, fdRes, outClosed,
                   output, consDone>>
    /\ UNCHANGED fanRest

\* Worker w's result channel is unbuffered: its send results <- result and
\* the forwarder's receive in range c happen together.
ForwardTake(w) ==
    /\ fwState[w] = "send"
    /\ fdState[w] = "recv"
    /\ fdRes' = [fdRes EXCEPT ![w] = <<fwJob[w], w>>]
    /\ fdState' = [fdState EXCEPT ![w] = "send"]
    /\ fwState' = [fwState EXCEPT ![w] = "recv"]
    /\ fwJob' = [fwJob EXCEPT ![w] = -1]
    /\ UNCHANGED <<genNext, genClosed, fanClosed, outClosed, output, consDone>>
    /\ UNCHANGED fanRest

\* range c ends for the forwarder of worker w's channel; defer wg.Done().
ForwardExit(w) ==
    /\ fdState[w] = "recv"
    /\ w <= fanClosed
    /\ fdState' = [fdState EXCEPT ![w] = "exit"]
    /\ UNCHANGED <<genNext, genClosed, fwState, fwJob, fanClosed, fdRes, outClosed,
                   output, consDone>>
    /\ UNCHANGED fanRest

\* FanInClose as it would be if out were closed without wg.Wait().
FanInClose_NoWait ==
    /\ ~outClosed
    /\ outClosed' = TRUE
    /\ UNCHANGED <<genNext, genClosed, fwState, fwJob, fanClosed, fdState, fdRes,
                   output, consDone>>
    /\ UNCHANGED fanRest

\* fanIn's closer: wg.Wait(); close(out).
FanInClose ==
    /\ \A w \in FanWorkers : fdState[w] = "exit"
    /\ ~outClosed
    /\ outClosed' = TRUE
    /\ UNCHANGED <<genNext, genClosed, fwState, fwJob, fanClosed, fdState, fdRes,
                   output, consDone>>
    /\ UNCHANGED fanRest

\* out is unbuffered: a forwarder's send out <- result and the receive of
\* RunFan's loop happen together.
FanConsume(w) ==
    /\ fdState[w] = "send"
    /\ ~consDone
    /\ output' = Append(output, fdRes[w])
    /\ fdRes' = [fdRes EXCEPT ![w] = <<>>]
    /\ fdState' = [fdState EXCEPT ![w] = "recv"]
    /\ UNCHANGED <<genNext, genClosed, fwState, fwJob, fanClosed, outClosed, consDone>>
    /\ UNCHANGED fanRest

\* range finalResults ends: out is closed.
FanConsumerExit ==
    /\ outClosed
    /\ ~consDone
    /\ consDone' = TRUE
    /\ UNCHANGED <<genNext, genClosed, fwState, fwJob, fanClosed, fdState, fdRes,
                   outClosed, output>>
    /\ UNCHANGED fanRest

FanNext ==
    \/ \E w \in FanWorkers : WorkerTake(w)
    \/ GenClose
    \/ \E w \in FanWorkers : WorkerExit(w)
    \/ FanOutClose
    \/ \E w \in FanWorkers : ForwardTake(w)
    \/ \E w \in FanWorkers : ForwardExit(w)
    \/ FanInClose
    \/ \E w \in FanWorkers : FanConsume(w)
    \/ FanConsumerExit

\* Every goroutine that can take a step eventually takes one.
SpecFan == Init /\ [][FanNext]_vars /\ WF_vars(FanNext)

\* Number of places of the output that carry item i.
OutCount(i) == Cardinality({n \in 1..Len(output) : output[n][1] = i})
\* Number of workers and forwarders that hold item i.
HeldCount(i) ==
    Cardinality({w \in FanWorkers : fwJob[w] = i})
      + Cardinality({w \in FanWorkers : fdRes[w] # <<>> /\ fdRes[w][1] = i})

FanSafe ==
    /\ \A i \in Items :
          HeldCount(i) + OutCount(i) = (IF i < genNext THEN 1 ELSE 0)
    /\ \A w \in FanWorkers : fdRes[w] # <<>> => fdRes[w][2] = w
    /\ \A n \in 1..Len(output) : output[n][2] \in FanWorkers
    /\ \A w \in FanWorkers : fwState[w] = "send" => w > fanClosed
    /\ \A w \in FanWorkers : fdState[w] = "send" => ~outClosed
    /\ outClosed => (Len(output) = NumItems /\ \A i \in Items : OutCount(i) = 1)
    /\ consDone => (outClosed /\ Len(output) = NumItems)

\* C17: every generated item is held by exactly one worker or forwarder or
\* is exactly once on the merged output; no result is sent on a closed
\* channel; out is closed only when all results were forwarded; and the
\* consumer loop ends, having received exactly NumItems results.
C17_FanOutFanIn == []FanSafe /\ <>consDone

\* C17 witness: the consumer loop has ended with results of both workers.
C17_Witness ==
    /\ consDone
    /\ Len(output) = NumItems
    /\ \E m, n \in 1..Len(output) : output[m][2] # output[n][2]

\* ---------------------------------------------------------------------
\* Worker pool example: the sender, the workers, the closer and the
\* collector loop of RunPools.

\* What the steps of the worker pool example leave alone.
poolRest == <<sfVars, abandoned, psVars, fanVars, pcVars, mrVars, rpVars, apiVars,
              supVars, tbVars, elVars, toVars, plVars>>

\* jobs <- i by the sender goroutine (the channel has capacity numJobs).
SendJob ==
    /\ jobsSent <= NumJobs
    /\ Len(jobsBuf) < NumJobs
    /\ jobsBuf' = Append(jobsBuf, jobsSent)
    /\ jobsSent' = jobsSent + 1
    /\ UNCHANGED <<jobsClosed, pwState, pwJob, resultsBuf, resultsClosed,
                   collected, collDone>>
    /\ UNCHANGED poolRest

\* The sender's loop is over: defer close(jobs).
CloseJobs ==
    /\ jobsSent > NumJobs
    /\ ~jobsClosed
    /\ jobsClosed' = TRUE
    /\ UNCHANGED <<jobsBuf, jobsSent, pwState, pwJob, resultsBuf, resultsClosed,
                   collected, collDone>>
    /\ UNCHANGED poolRest

\* for job := range jobs: worker w receives a job and works on it.
PoolTake(w) ==
    /\ pwState[w] = "recv"
    /\ jobsBuf # <<>>
    /\ pwJob' = [pwJob EXCEPT ![w] = Head(jobsBuf)]
    /\ jobsBuf' = Tail(jobsBuf)
    /\ pwState' = [pwState EXCEPT ![w] = "send"]
    /\ UNCHANGED <<jobsSent, jobsClosed, resultsBuf, resultsClosed, collected, collDone>>
    /\ UNCHANGED poolRest

\* results <- result by worker w (the channel has capacity numJobs).
PoolSend(w) ==
    /\ pwState[w] = "send"
    /\ Len(resultsBuf) < NumJobs
    /\ resultsBuf' = Append(resultsBuf, <<pwJob[w], w>>)
    /\ pwJob' = [pwJob EXCEPT ![w] = 0]
    /\ pwState' = [pwState EXCEPT ![w] = "recv"]
    /\ UNCHANGED <<jobsBuf, jobsSent, jobsClosed, resultsClosed, collected, collDone>>
    /\ UNCHANGED poolRest

\* range jobs ends for worker w: jobs is closed and drained; defer wg.Done().
PoolExit(w) ==
    /\ pwState[w] = "recv"
    /\ jobsBuf = <<>>
    /\ jobsClosed
    /\ pwState' = [pwState EXCEPT ![w] = "exit"]
    /\ UNCHANGED <<jobsBuf, jobsSent, jobsClosed, pwJob, resultsBuf, resultsClosed,
                   collected, collDone>>
    /\ UNCHANGED poolRest

\* CloseResults as it would be if results were closed without wg.Wait().
CloseResults_NoWait ==
    /\ ~resultsClosed
    /\ resultsClosed' = TRUE
    /\ UNCHANGED <<jobsBuf, jobsSent, jobsClosed, pwState, pwJob, resultsBuf,
                   collected, collDone>>
    /\ UNCHANGED poolRest

\* The closer goroutine: wg.Wait(); close(results).
CloseResults ==
    /\ \A w \in PoolWorkers : pwState[w] = "exit"
    /\ ~resultsClosed
    /\ resultsClosed' = TRUE
    /\ UNCHANGED <<jobsBuf, jobsSent, jobsClosed, pwState, pwJob, resultsBuf,
                   collected, collDone>>
    /\ UNCHANGED poolRest

\* for result := range results: the collector receives one result.
Collect ==
    /\ ~collDone
    /\ resultsBuf # <<>>
    /\ collected' = Append(collected, Head(resultsBuf))
    /\ resultsBuf' = Tail(resultsBuf)
    /\ UNCHANGED <<jobsBuf, jobsSent, jobsClosed, pwState, pwJob, resultsClosed, collDone>>
    /\ UNCHANGED poolRest

\* range results ends: results is closed and drained.
CollectorExit ==
    /\ ~collDone
    /\ resultsBuf = <<>>
    /\ resultsClosed
    /\ collDone' = TRUE
    /\ UNCHANGED <<jobsBuf, jobsSent, jobsClosed, pwState, pwJob, resultsBuf,
                   resultsClosed, collected>>
    /\ UNCHANGED poolRest

PoolNext ==
    \/ SendJob
    \/ CloseJobs
    \/ \E w \in PoolWorkers : PoolTake(w)
    \/ \E w \in PoolWorkers : PoolSend(w)
    \/ \E w \in PoolWorkers : PoolExit(w)
    \/ CloseResults
    \/ Collect
    \/ CollectorExit

\* Every goroutine that can take a step eventually takes one.
SpecPool == Init /\ [][PoolNext]_vars /\ WF_vars(PoolNext)

\* Number of places of sequence q that carry job j as a plain job.
InJobs(j) == Cardinality({n \in 1..Len(jobsBuf) : jobsBuf[n] = j})
\* Number of results for job j in sequence q of results.
ResultsFor(q, j) == Cardinality({n \in 1..Len(q) : q[n][1] = j})
\* Number of workers that hold job j.
TakenBy(j) == Cardinality({w \in PoolWorkers : pwJob[w] = j})

PoolSafe ==
    /\ \A j \in Jobs :
          /\ InJobs(j) + TakenBy(j) + ResultsFor(resultsBuf, j)
                + ResultsFor(collected, j) = (IF j < jobsSent THEN 1 ELSE 0)
          /\ TakenBy(j) <= 1
    /\ \A w \in PoolWorkers : (pwState[w] = "send") = (pwJob[w] # 0)
    /\ resultsClosed => \A w \in PoolWorkers : pwState[w] = "exit"
    /\ \A w \in PoolWorkers : pwState[w] = "send" => ~resultsClosed
    /\ collDone =>
          /\ Len(collected) = NumJobs
          /\ \A j \in Jobs : ResultsFor(collected, j) = 1

\* C18: each job is at every moment in exactly one place (the jobs channel,
\* one worker, or one result), results is closed only after every worker has
\* exited, so no worker sends on it closed, and the collector ends having
\* received exactly NumJobs results, one per job.
C18_WorkerPool == []PoolSafe /\ <>collDone

\* C18 witness: the collector has ended with results of two workers.
C18_Witness ==
    /\ collDone
    /\ Len(collected) = NumJobs
    /\ \E m, n \in 1..Len(collected) : collected[m][2] # collected[n][2]

\* ---------------------------------------------------------------------
\* Producer-consumer example: the producers, the consumers and the main
\* goroutine of RunProducerConsumer.

\* What the steps of the producer-consumer example leave alone.
pcRest == <<sfVars, abandoned, psVars, fanVars, poolVars, mrVars, rpVars, apiVars,
            supVars, tbVars, elVars, toVars, plVars>>

\* buffer <- item by producer p: blocks while the buffer is full.
Produce(p) ==
    /\ produced[p] < NumProduced
    /\ Len(bufQ) < BufferSize
    /\ bufQ' = Append(bufQ, <<p, produced[p] + 1>>)
    /\ produced' = [produced EXCEPT ![p] = @ + 1]
    /\ UNCHANGED <<bufClosed, consState, recvCount, mainPc>>
    /\ UNCHANGED pcRest

\* CloseBuffer as it would be if main closed the buffer without wg.Wait().
CloseBuffer_NoWait ==
    /\ mainPc = "waitProducers"
    /\ bufClosed' = TRUE
    /\ mainPc' = "waitConsumers"
    /\ UNCHANGED <<produced, bufQ, consState, recvCount>>
    /\ UNCHANGED pcRest

\* wg.Wait(); close(buffer) in main: every producer has left its loop.
CloseBuffer ==
    /\ mainPc = "waitProducers"
    /\ \A p \in Producers : produced[p] = NumProduced
    /\ bufClosed' = TRUE
    /\ mainPc' = "waitConsumers"
    /\ UNCHANGED <<produced, bufQ, consState, recvCount>>
    /\ UNCHANGED pcRest

\* for item := range buffer: consumer cn receives one item.
Consume(cn) ==
    /\ consState[cn] = "recv"
    /\ bufQ # <<>>
    /\ recvCount' = [recvCount EXCEPT ![Head(bufQ)] = @ + 1]
    /\ bufQ' = Tail(bufQ)
    /\ UNCHANGED <<produced, bufClosed, consState, mainPc>>
    /\ UNCHANGED pcRest

\* range buffer ends for consumer cn: closed and drained; consumerWg.Done().
ConsumerExit(cn) ==
    /\ consState[cn] = "recv"
    /\ bufQ = <<>>
    /\ bufClosed
    /\ consState' = [consState EXCEPT ![cn] = "done"]
    /\ UNCHANGED <<produced, bufQ, bufClosed, recvCount, mainPc>>
    /\ UNCHANGED pcRest

\* consumerWg.Wait() returns and RunProducerConsumer ends.
MainExit ==
    /\ mainPc = "waitConsumers"
    /\ \A cn \in Consumers : consState[cn] = "done"
    /\ mainPc' = "done"
    /\ UNCHANGED <<produced, bufQ, bufClosed, consState, recvCount>>
    /\ UNCHANGED pcRest

PcNext ==
    \/ \E p \in Producers : Produce(p)
    \/ CloseBuffer
    \/ \E cn \in Consumers : Consume(cn)
    \/ \E cn \in Consumers : ConsumerExit(cn)
    \/ MainExit

\* Every goroutine that can take a step eventually takes one.
SpecProdCons == Init /\ [][PcNext]_vars /\ WF_vars(PcNext)

\* Number of places of the buffer that carry item it.
InBuffer(it) == Cardinality({n \in 1..Len(bufQ) : bufQ[n] = it})

PcSafe ==
    /\ \A it \in Produced :
          InBuffer(it) + recvCount[it] = (IF it[2] <= produced[it[1]] THEN 1 ELSE 0)
    /\ Len(bufQ) <= BufferSize
    /\ bufClosed => \A p \in Producers : produced[p] = NumProduced
    /\ \A cn \in Consumers : consState[cn] = "done" => (bufClosed /\ bufQ = <<>>)
    /\ mainPc = "done" => \A it \in Produced : recvCount[it] = 1

\* C19: every item sent is in the buffer or was received exactly once; the
\* buffer is closed only after every producer finished sending; a consumer
\* ends only when the closed buffer is drained; and all of them end.
C19_ProducerConsumer == []PcSafe /\ <>(mainPc = "done")

\* C19 witness: main and all consumers have ended, every item of every
\* producer having been received once.
C19_Witness ==
    /\ mainPc = "done"
    /\ \A cn \in Consumers : consState[cn] = "done"
    /\ \A it \in Produced : recvCount[it] = 1

\* ---------------------------------------------------------------------
\* MapReduce example: the map goroutines and the closer of mapPhase, the
\* loop and the goroutines of shufflePhase, and reducePhase.

\* What the steps of the MapReduce example leave alone.
mrRest == <<sfVars, abandoned, psVars, fanVars, poolVars, pcVars, rpVars, apiVars,
            supVars, tbVars, elVars, toVars, plVars>>

\* unicode.IsSpace on the characters of the lines.
IsSpace(ch) == ch \in {" ", "\t"}

\* unicode.ToLower on the characters of the lines.
LowerChar(ch) ==
    CASE ch = "G" -> "g"
      [] ch = "O" -> "o"
      [] OTHER -> ch

\* strings.ToLower
ToLower(text) == [i \in 1..Len(text) |-> LowerChar(text[i])]

\* strings.Fields from place i on, cur being the field under way and acc
\* the fields found so far.
RECURSIVE FieldsFrom(_, _, _, _)
FieldsFrom(text, i, cur, acc) ==
    IF i > Len(text)
    THEN IF cur = <<>> THEN acc ELSE Append(acc, cur)
    ELSE IF IsSpace(text[i])
         THEN FieldsFrom(text, i + 1, <<>>, IF cur = <<>> THEN acc ELSE Append(acc, cur))
         ELSE FieldsFrom(text, i + 1, Append(cur, text[i]), acc)

\* strings.Fields
Fields(text) == FieldsFrom(text, 1, <<>>, <<>>)

\* words := strings.Fields(strings.ToLower(text)) for line l.
WordsOf(l) == Fields(ToLower(data[l]))

\* KeyValue{Key: word, Value: 1}
KeyValue(word, value) == [Key |-> word, Value |-> value]

\* m[k] of a Go map of slices: the zero value nil when k is absent.
MapGet(m, k) == IF k \in DOMAIN m THEN m[k] ELSE <<>>

\* m[k] = v on a Go map.
MapSet(m, k, v) == [x \in DOMAIN m \cup {k} |-> IF x = k THEN v ELSE m[x]]

\* total of the loop over counts in a reduce goroutine.
RECURSIVE Total(_)
Total(counts) == IF counts = <<>> THEN 0 ELSE Head(counts) + Total(Tail(counts))

ShuffleGoroutines == 1..Len(shState)

\* out <- KeyValue{Key: word, Value: 1} by the map goroutine of line l.
MapEmit(l) ==
    /\ mrPc # "crashed"
    /\ mapPos[l] < Len(WordsOf(l))
    /\ Len(mapped) < Len(data) * OutPerLine
    /\ mapped' = Append(mapped, KeyValue(WordsOf(l)[mapPos[l] + 1], 1))
    /\ mapPos' = [mapPos EXCEPT ![l] = @ + 1]
    /\ UNCHANGED <<data, mappedClosed, shKv, shState, shMu, grouped, pending, result, mrPc>>
    /\ UNCHANGED mrRest

\* The closer of mapPhase: wg.Wait(); close(out).
MapClose ==
    /\ mrPc # "crashed"
    /\ \A l \in 1..Len(data) : mapPos[l] = Len(WordsOf(l))
    /\ ~mappedClosed
    /\ mappedClosed' = TRUE
    /\ UNCHANGED <<data, mapPos, mapped, shKv, shState, shMu, grouped, pending, result, mrPc>>
    /\ UNCHANGED mrRest

\* for kv := range mapped: start a shuffle goroutine for the pair received.
ShuffleSpawn ==
    /\ mrPc = "shuffle"
    /\ mapped # <<>>
    /\ shKv' = Append(shKv, Head(mapped))
    /\ shState' = Append(shState, "start")
    /\ mapped' = Tail(mapped)
    /\ UNCHANGED <<data, mapPos, mappedClosed, shMu, grouped, pending, result, mrPc>>
    /\ UNCHANGED mrRest

\* range mapped ends: the channel is closed and drained; on to wg.Wait().
ShuffleLoopEnd ==
    /\ mrPc = "shuffle"
    /\ mapped = <<>>
    /\ mappedClosed
    /\ mrPc' = "wait"
    /\ UNCHANGED <<data, mapPos, mapped, mappedClosed, shKv, shState, shMu, grouped,
                   pending, result>>
    /\ UNCHANGED mrRest

\* mu.Lock() by shuffle goroutine g.
ShuffleLock(g) ==
    /\ mrPc # "crashed"
    /\ shState[g] = "start"
    /\ shMu = 0
    /\ shMu' = g
    /\ shState' = [shState EXCEPT ![g] = "write"]
    /\ UNCHANGED <<data, mapPos, mapped, mappedClosed, shKv, grouped, pending, result, mrPc>>
    /\ UNCHANGED mrRest

\* ShuffleStore as it would be if the value replaced the slice.
ShuffleStore_Overwrite(g) ==
    /\ mrPc # "crashed"
    /\ shState[g] = "write"
    /\ grouped' = MapSet(grouped, shKv[g].Key, <<shKv[g].Value>>)
    /\ shMu' = 0
    /\ shState' = [shState EXCEPT ![g] = "print"]
    /\ UNCHANGED <<data, mapPos, mapped, mappedClosed, shKv, pending, result, mrPc>>
    /\ UNCHANGED mrRest

\* grouped[kv.Key] = append(grouped[kv.Key], kv.Value); mu.Unlock()
ShuffleStore(g) ==
    /\ mrPc # "crashed"
    /\ shState[g] = "write"
    /\ grouped' = MapSet(grouped, shKv[g].Key,
                         Append(MapGet(grouped, shKv[g].Key), shKv[g].Value))
    /\ shMu' = 0
    /\ shState' = [shState EXCEPT ![g] = "print"]
    /\ UNCHANGED <<data, mapPos, mapped, mappedClosed, shKv, pending, result, mrPc>>
    /\ UNCHANGED mrRest

\* The read grouped[kv.Key] of the Printf after the unlock returns a value
\* (which is only printed); defer wg.Done().
ShufflePrint(g) ==
    /\ mrPc # "crashed"
    /\ shState[g] = "print"
    /\ shState' = [shState EXCEPT ![g] = "done"]
    /\ UNCHANGED <<data, mapPos, mapped, mappedClosed, shKv, shMu, grouped, pending,
                   result, mrPc>>
    /\ UNCHANGED mrRest

\* The same read while another goroutine is inside its write of grouped:
\* the runtime may stop the program ("concurrent map read and map write").
ShuffleRace(g) ==
    /\ mrPc # "crashed"
    /\ shState[g] = "print"
    /\ shMu # 0
    /\ mrPc' = "crashed"
    /\ UNCHANGED <<data, mapPos, mapped, mappedClosed, shKv, shState, shMu, grouped,
                   pending, result>>
    /\ UNCHANGED mrRest

\* wg.Wait() of shufflePhase returns; reducePhase starts one goroutine per
\* word of grouped.
ShuffleReturn ==
    /\ mrPc = "wait"
    /\ \A g \in ShuffleGoroutines : shState[g] = "done"
    /\ mrPc' = "reduce"
    /\ pending' = DOMAIN grouped
    /\ UNCHANGED <<data, mapPos, mapped, mappedClosed, shKv, shState, shMu, grouped, result>>
    /\ UNCHANGED mrRest

\* The reduce goroutine of a word: total the counts, then under mu
\* result[word] = total.
Reduce(word) ==
    /\ mrPc = "reduce"
    /\ word \in pending
    /\ result' = MapSet(result, word, Total(grouped[word]))
    /\ pending' = pending \ {word}
    /\ UNCHANGED <<data, mapPos, mapped, mappedClosed, shKv, shState, shMu, grouped, mrPc>>
    /\ UNCHANGED mrRest

\* wg.Wait() of reducePhase returns the result.
ReduceReturn ==
    /\ mrPc = "reduce"
    /\ pending = {}
    /\ mrPc' = "done"
    /\ UNCHANGED <<data, mapPos, mapped, mappedClosed, shKv, shState, shMu, grouped,
                   pending, result>>
    /\ UNCHANGED mrRest

MrNext ==
    \/ \E l \in 1..Len(data) : MapEmit(l)
    \/ MapClose
    \/ ShuffleSpawn
    \/ ShuffleLoopEnd
    \/ \E g \in ShuffleGoroutines : ShuffleLock(g)
    \/ \E g \in ShuffleGoroutines : ShuffleStore(g)
    \/ \E g \in ShuffleGoroutines : ShufflePrint(g)
    \/ \E g \in ShuffleGoroutines : ShuffleRace(g)
    \/ ShuffleReturn
    \/ \E word \in pending : Reduce(word)
    \/ ReduceReturn

InitMapReduce == SfInit /\ PsInit /\ FanInit /\ PoolInit /\ PcInit /\ MrInit /\ RpInit
    /\ ApiInit /\ SupInit /\ TbInit /\ ElInit /\ ToInit /\ PlInit

SpecMapReduce == InitMapReduce /\ [][MrNext]_vars

\* The places i..j of line l hold one whole word: no white space inside,
\* and white space or the end of the line on either side.
WordAt(l, i, j) ==
    /\ i <= j
    /\ \A n \in i..j : ~IsSpace(data[l][n])
    /\ i = 1 \/ IsSpace(data[l][i - 1])
    /\ j = Len(data[l]) \/ IsSpace(data[l][j + 1])

\* The stretches <<l, i, j>> of the input: places i..j of line l.
Stretches ==
    UNION { {l} \X (1..Len(data[l])) \X (1..Len(data[l])) : l \in 1..Len(data) }

\* The stretches of the input that hold one whole word.
WordStretches == { t \in Stretches : WordAt(t[1], t[2], t[3]) }

\* The occurrences in the input of a word, whatever its case.
Occurrences(word) ==
    { t \in WordStretches :
         /\ Len(word) = t[3] - t[2] + 1
         /\ \A n \in 1..Len(word) : LowerChar(data[t[1]][t[2] + n - 1]) = word[n] }

\* The lower-cased words of the input.
InputWords == { ToLower(SubSeq(data[t[1]], t[2], t[3])) : t \in WordStretches }

\* C20: once reducePhase has returned, whatever the interleaving was, the
\* keys of result are exactly the lower-cased words of the input and each is
\* mapped to its number of occurrences in the input.
C20_WordCount ==
    mrPc = "done" =>
        /\ DOMAIN result = InputWords
        /\ \A word \in InputWords : result[word] = Cardinality(Occurrences(word))

\* C20 witness: a result with two words, one of them counted twice or
\* more, from an input with upper-case letters.
C20_Witness ==
    /\ mrPc = "done"
    /\ Cardinality(DOMAIN result) >= 2
    /\ \E word \in DOMAIN result : result[word] >= 2
    /\ \E l \in 1..Len(data) : ToLower(data[l]) # data[l]

\* C32: a shuffle goroutine reads or writes grouped only while it holds mu:
\* no goroutine is at its read of grouped[kv.Key] (the Printf, which it
\* reaches after mu.Unlock()) while another goroutine holds mu for its write.
C32_MapAccessUnderMu ==
    \A g \in ShuffleGoroutines :
        shState[g] = "print" => \A h \in ShuffleGoroutines : ~(shMu = h /\ shState[h] = "write")

\* ---------------------------------------------------------------------
\* Resource pooling example: the goroutines of RunResourcePooling, each
\* calling getConnection and then releaseConnection, and the final close.

\* What the steps of the resource pooling example leave alone.
rpRest == <<sfVars, abandoned, psVars, fanVars, poolVars, pcVars, mrVars, apiVars,
            supVars, tbVars, elVars, toVars, plVars>>

\* The select of getConnection: take a connection if the channel holds one,
\* else the default branch.
GetSelect(w) ==
    /\ cpc[w] = "get"
    /\ IF connections # <<>>
          THEN /\ conn' = [conn EXCEPT ![w] = Head(connections)]
               /\ connections' = Tail(connections)
               /\ cpc' = [cpc EXCEPT ![w] = "use"]
          ELSE /\ cpc' = [cpc EXCEPT ![w] = "lock"]
               /\ UNCHANGED <<conn, connections>>
    /\ UNCHANGED <<created, dbMu, connClosed, allocs>>
    /\ UNCHANGED rpRest

\* p.mu.Lock()
GetLock(w) ==
    /\ cpc[w] = "lock"
    /\ dbMu = 0
    /\ dbMu' = w
    /\ cpc' = [cpc EXCEPT ![w] = "check"]
    /\ UNCHANGED <<connections, created, connClosed, allocs, conn>>
    /\ UNCHANGED rpRest

\* GetCheck as it would be without the comparison with maxSize.
GetCheck_NoLimit(w) ==
    /\ cpc[w] = "check"
    /\ created' = created + 1
    /\ cpc' = [cpc EXCEPT ![w] = "new"]
    /\ dbMu' = 0
    /\ UNCHANGED <<connections, connClosed, allocs, conn>>
    /\ UNCHANGED rpRest

\* if p.created < p.maxSize { p.created++; p.mu.Unlock(); ... }
\* p.mu.Unlock()
GetCheck(w) ==
    /\ cpc[w] = "check"
    /\ IF created < PoolMaxSize
          THEN /\ created' = created + 1
               /\ cpc' = [cpc EXCEPT ![w] = "new"]
          ELSE /\ cpc' = [cpc EXCEPT ![w] = "wait"]
               /\ UNCHANGED created
    /\ dbMu' = 0
    /\ UNCHANGED <<connections, connClosed, allocs, conn>>
    /\ UNCHANGED rpRest

\* return &dbConnection{id: p.created, ...}: p.created is read after the
\* unlock, so it is whatever the counter is by now.
GetNew(w) ==
    /\ cpc[w] = "new"
    /\ conn' = [conn EXCEPT ![w] = DbConnection(allocs + 1, created)]
    /\ allocs' = allocs + 1
    /\ cpc' = [cpc EXCEPT ![w] = "use"]
    /\ UNCHANGED <<connections, created, dbMu, connClosed>>
    /\ UNCHANGED rpRest

\* conn := <-p.connections: wait for a connection to come back.
GetWait(w) ==
    /\ cpc[w] = "wait"
    /\ connections # <<>>
    /\ conn' = [conn EXCEPT ![w] = Head(connections)]
    /\ connections' = Tail(connections)
    /\ cpc' = [cpc EXCEPT ![w] = "use"]
    /\ UNCHANGED <<created, dbMu, connClosed, allocs>>
    /\ UNCHANGED rpRest

\* releaseConnection: put the connection back if the channel has room,
\* else discard it.
ReleaseConnection(w) ==
    /\ cpc[w] = "use"
    /\ connections' = IF Len(connections) < PoolMaxSize
                         THEN Append(connections, conn[w])
                         ELSE connections
    /\ conn' = [conn EXCEPT ![w] = <<>>]
    /\ cpc' = [cpc EXCEPT ![w] = "done"]
    /\ UNCHANGED <<created, dbMu, connClosed, allocs>>
    /\ UNCHANGED rpRest

\* wg.Wait(); dbPool.close()
ClosePool ==
    /\ \A w \in Clients : cpc[w] = "done"
    /\ ~connClosed
    /\ connClosed' = TRUE
    /\ UNCHANGED <<connections, created, dbMu, allocs, cpc, conn>>
    /\ UNCHANGED rpRest

RpNext ==
    \/ \E w \in Clients : GetSelect(w)
    \/ \E w \in Clients : GetLock(w)
    \/ \E w \in Clients : GetCheck(w)
    \/ \E w \in Clients : GetNew(w)
    \/ \E w \in Clients : GetWait(w)
    \/ \E w \in Clients : ReleaseConnection(w)
    \/ ClosePool

SpecResourcePool == Init /\ [][RpNext]_vars

\* The goroutines that hold a connection.
Holders == {w \in Clients : conn[w] # <<>>}

\* The connections in existence: in the channel or held by a goroutine.
Existing ==
    {connections[n] : n \in 1..Len(connections)} \cup {conn[w] : w \in Holders}

\* C21: created never exceeds maxSize, and the connections in the channel
\* together with those held by goroutines are never more than maxSize,
\* whether counted as places or as distinct connections.
C21_PoolSizeLimit ==
    /\ created <= PoolMaxSize
    /\ Len(connections) + Cardinality(Holders) <= PoolMaxSize
    /\ Cardinality(Existing) <= PoolMaxSize

\* C21 witness: the pool is at its limit, every connection is held, and
\* another goroutine waits for one to come back.
C21_Witness ==
    /\ created = PoolMaxSize
    /\ Cardinality(Holders) = PoolMaxSize
    /\ \E w \in Clients : cpc[w] = "wait"

\* ---------------------------------------------------------------------
\* The broadcaster under concurrent calls: goroutine a calls publish with
\* message a, or close; subscribers subscribe and receive as in RunPubSub.

\* What the calls of publish and close leave alone.
apiRest == <<sfVars, abandoned, fanVars, poolVars, pcVars, mrVars, rpVars, supVars,
             tbVars, elVars, toVars, plVars,
             pubPc, pubMsg, pubIdx, subPc, received, subAt>>

\* ApiPublishBegin as it would be without the check of b.closed.
ApiPublishBegin_NoClosedCheck(a) ==
    /\ apiPc[a] = "idle"
    /\ ~bmu
    /\ bmu' = TRUE
    /\ apiIdx' = [apiIdx EXCEPT ![a] = 1]
    /\ apiPc' = [apiPc EXCEPT ![a] = "send"]
    /\ apiOp' = [apiOp EXCEPT ![a] = "publish"]
    /\ UNCHANGED <<subscribers, bclosed, chBuf, chClosed, apiPanic>>
    /\ UNCHANGED apiRest

\* publish: b.mu.Lock(); if b.closed { return } (the deferred unlock runs).
ApiPublishBegin(a) ==
    /\ apiPc[a] = "idle"
    /\ ~bmu
    /\ IF bclosed
          THEN /\ apiPc' = [apiPc EXCEPT ![a] = "done"]
               /\ apiOp' = [apiOp EXCEPT ![a] = "publishNoop"]
               /\ UNCHANGED <<bmu, apiIdx>>
          ELSE /\ bmu' = TRUE
               /\ apiIdx' = [apiIdx EXCEPT ![a] = 1]
               /\ apiPc' = [apiPc EXCEPT ![a] = "send"]
               /\ apiOp' = [apiOp EXCEPT ![a] = "publish"]
    /\ UNCHANGED <<subscribers, bclosed, chBuf, chClosed, apiPanic>>
    /\ UNCHANGED apiRest

\* ch <- msg inside the loop of publish: panics on a closed channel (the
\* deferred unlock runs), else blocks while the buffer is full.
ApiPublishSend(a) ==
    /\ apiPc[a] = "send"
    /\ apiIdx[a] <= Len(subscribers)
    /\ IF chClosed[subscribers[apiIdx[a]]]
          THEN /\ apiPanic' = TRUE
               /\ bmu' = FALSE
               /\ apiPc' = [apiPc EXCEPT ![a] = "done"]
               /\ UNCHANGED <<chBuf, apiIdx>>
          ELSE /\ Len(chBuf[subscribers[apiIdx[a]]]) < ChanCap
               /\ chBuf' = [chBuf EXCEPT ![subscribers[apiIdx[a]]] = Append(@, a)]
               /\ apiIdx' = [apiIdx EXCEPT ![a] = @ + 1]
               /\ UNCHANGED <<bmu, apiPc, apiPanic>>
    /\ UNCHANGED <<subscribers, bclosed, chClosed, apiOp>>
    /\ UNCHANGED apiRest

\* The loop of publish is over: the deferred b.mu.Unlock() runs.
ApiPublishEnd(a) ==
    /\ apiPc[a] = "send"
    /\ apiIdx[a] > Len(subscribers)
    /\ bmu' = FALSE
    /\ apiPc' = [apiPc EXCEPT ![a] = "done"]
    /\ UNCHANGED <<subscribers, bclosed, chBuf, chClosed, apiOp, apiIdx, apiPanic>>
    /\ UNCHANGED apiRest

\* close: under b.mu, return if b.closed, else close(ch) for every
\* subscriber channel (which panics on a closed one) and set b.closed.
ApiClose(a) ==
    /\ apiPc[a] = "idle"
    /\ ~bmu
    /\ IF bclosed
          THEN /\ apiOp' = [apiOp EXCEPT ![a] = "closeNoop"]
               /\ UNCHANGED <<chClosed, bclosed, apiPanic>>
          ELSE /\ apiOp' = [apiOp EXCEPT ![a] = "close"]
               /\ IF \E i \in 1..Len(subscribers) : chClosed[subscribers[i]]
                     THEN /\ apiPanic' = TRUE
                          /\ UNCHANGED <<chClosed, bclosed>>
                     ELSE /\ chClosed' = [s \in Subs |->
                                             \E i \in 1..Len(subscribers) :
                                                 subscribers[i] = s]
                          /\ bclosed' = TRUE
                          /\ UNCHANGED apiPanic
    /\ apiPc' = [apiPc EXCEPT ![a] = "done"]
    /\ UNCHANGED <<bmu, subscribers, chBuf, apiIdx>>
    /\ UNCHANGED apiRest

ApiNext ==
    \/ \E a \in ApiCallers : ApiPublishBegin(a)
    \/ \E a \in ApiCallers : ApiPublishSend(a)
    \/ \E a \in ApiCallers : ApiPublishEnd(a)
    \/ \E a \in ApiCallers : ApiClose(a)
    \/ \E s \in Subs : Subscribe(s)
    \/ \E s \in Subs : Receive(s)
    \/ \E s \in Subs : SubscriberExit(s)

SpecBroadcaster == Init /\ [][ApiNext]_vars

\* No goroutine has panicked, no publish is at a send to a closed channel,
\* and a channel is closed only in a closed broadcaster with no publish under
\* way.
C29_NoSendOnClosed ==
    /\ ~apiPanic
    /\ \A a \in ApiCallers :
          (apiPc[a] = "send" /\ apiIdx[a] <= Len(subscribers)) =>
              ~chClosed[subscribers[apiIdx[a]]]
    /\ bclosed => \A a \in ApiCallers : apiPc[a] # "send"
    /\ \A s \in Subs : chClosed[s] => bclosed

\* Once the broadcaster is closed no step closes a channel, sends a message
\* or reopens the broadcaster.
C29_ClosedStep ==
    bclosed =>
        /\ bclosed'
        /\ chClosed' = chClosed
        /\ \A s \in Subs : Len(chBuf'[s]) <= Len(chBuf[s])

\* C29: whatever the interleaving of concurrent publish and close calls, no
\* publish sends on a closed channel and no channel is closed twice (either
\* would panic); a publish after close and a second close change nothing.
C29_PublishCloseSafe == []C29_NoSendOnClosed /\ [][C29_ClosedStep]_vars

\* C29 witness: a publish and a close both came after the close and
\* returned at the closed check, and a subscriber's channel was closed.
C29_Witness ==
    /\ \E a \in ApiCallers : apiOp[a] = "publishNoop"
    /\ \E a \in ApiCallers : apiOp[a] = "closeNoop"
    /\ \E a \in ApiCallers : apiOp[a] = "close"
    /\ \E s \in Subs : chClosed[s]

\* ---------------------------------------------------------------------
\* Supervisor example: the supervisor goroutine, its workers and the main
\* goroutine of RunSupervisor.

\* What the steps of the supervisor example leave alone.
supRest == <<sfVars, abandoned, psVars, fanVars, poolVars, pcVars, mrVars, rpVars,
             apiVars, tbVars, elVars, toVars, plVars>>

\* Top of the supervisor's loop: workerDone := make(chan struct{});
\* go workerWithFailure(workerDone, stop).
SupLaunch ==
    /\ supPc = "launch"
    /\ launched < MaxWorkers
    /\ launched' = launched + 1
    /\ wState' = [wState EXCEPT ![launched + 1] = "select"]
    /\ launchedAfterStop' = (launchedAfterStop \/ stopClosed)
    /\ supPc' = "select"
    /\ UNCHANGED <<stopClosed, doneClosed, restarts, wHow, supMainPc>>
    /\ UNCHANGED supRest

\* The worker's select takes case <-time.After(workTime): the work fails or
\* completes; either way the worker goes on to done <- struct{}{}.
WorkerTimer(n) ==
    /\ wState[n] = "select"
    /\ \E how \in {"failed", "completed"} : wHow' = [wHow EXCEPT ![n] = how]
    /\ wState' = [wState EXCEPT ![n] = "send"]
    /\ UNCHANGED <<stopClosed, doneClosed, supPc, launched, restarts, supMainPc,
                   launchedAfterStop>>
    /\ UNCHANGED supRest

\* The worker's select takes case <-stop, then goes on to done <- struct{}{}.
WorkerStop(n) ==
    /\ wState[n] = "select"
    /\ stopClosed
    /\ wHow' = [wHow EXCEPT ![n] = "stopped"]
    /\ wState' = [wState EXCEPT ![n] = "send"]
    /\ UNCHANGED <<stopClosed, doneClosed, supPc, launched, restarts, supMainPc,
                   launchedAfterStop>>
    /\ UNCHANGED supRest

\* The supervisor's select takes case <-workerDone: the current worker's
\* send on the unbuffered channel goes through and the worker returns;
\* atomic.AddInt32(&restarts, 1).
SupWorkerDone ==
    /\ supPc = "select"
    /\ wState[launched] = "send"
    /\ wState' = [wState EXCEPT ![launched] = "exited"]
    /\ restarts' = restarts + 1
    /\ supPc' = "sleep"
    /\ UNCHANGED <<stopClosed, doneClosed, launched, wHow, supMainPc, launchedAfterStop>>
    /\ UNCHANGED supRest

\* time.Sleep(500 * time.Millisecond) is over: back to the top of the loop.
SupWake ==
    /\ supPc = "sleep"
    /\ supPc' = "launch"
    /\ UNCHANGED <<stopClosed, doneClosed, launched, restarts, wState, wHow,
                   supMainPc, launchedAfterStop>>
    /\ UNCHANGED supRest

\* The supervisor's select takes case <-stop: close(done); return.
SupStop ==
    /\ supPc = "select"
    /\ stopClosed
    /\ doneClosed' = TRUE
    /\ supPc' = "exit"
    /\ UNCHANGED <<stopClosed, launched, restarts, wState, wHow, supMainPc,
                   launchedAfterStop>>
    /\ UNCHANGED supRest

\* time.Sleep(4 * time.Second) in RunSupervisor is over: close(stop).
MainCloseStop ==
    /\ supMainPc = "sleep"
    /\ stopClosed' = TRUE
    /\ supMainPc' = "wait"
    /\ UNCHANGED <<doneClosed, supPc, launched, restarts, wState, wHow, launchedAfterStop>>
    /\ UNCHANGED supRest

\* <-done in RunSupervisor returns.
MainDone ==
    /\ supMainPc = "wait"
    /\ doneClosed
    /\ supMainPc' = "done"
    /\ UNCHANGED <<stopClosed, doneClosed, supPc, launched, restarts, wState, wHow,
                   launchedAfterStop>>
    /\ UNCHANGED supRest

SupNext ==
    \/ SupLaunch
    \/ \E n \in Workers : WorkerTimer(n)
    \/ \E n \in Workers : WorkerStop(n)
    \/ SupWorkerDone
    \/ SupWake
    \/ SupStop
    \/ MainCloseStop
    \/ MainDone

SpecSupervisor == Init /\ [][SupNext]_vars

\* C30: no worker is launched once stop is closed, and when done is closed
\* every worker that was launched has finished.
C30_GracefulShutdown ==
    /\ ~launchedAfterStop
    /\ doneClosed => \A n \in 1..launched : wState[n] = "exited"

\* C31: no worker is left blocked in its send on workerDone once the
\* supervisor goroutine has returned (nobody receives from workerDone then, so
\* such a worker never terminates).
C31_NoWorkerLeaked ==
    supPc = "exit" => \A n \in 1..launched : wState[n] # "send"

\* ---------------------------------------------------------------------
\* Token bucket: the refill goroutine and the goroutines calling Allow.

\* What the steps of the token bucket leave alone.
tbRest == <<sfVars, abandoned, psVars, fanVars, poolVars, pcVars, mrVars, rpVars,
            apiVars, supVars, elVars, toVars, plVars>>

\* One tick of the ticker of refill: select { case t.tokens <- struct{}{}:
\* default: } adds a token unless the channel is full.
Refill_NoCap ==
    /\ ticks < MaxTicks
    /\ ticks' = ticks + 1
    /\ tokens' = tokens + 1
    /\ UNCHANGED allowed
    /\ UNCHANGED tbRest

Refill ==
    /\ ticks < MaxTicks
    /\ ticks' = ticks + 1
    /\ tokens' = IF tokens < Burst THEN tokens + 1 ELSE tokens
    /\ UNCHANGED allowed
    /\ UNCHANGED tbRest

\* Allow as it would be if it granted without taking a token.
Allow_NoTake(i) ==
    /\ allowed[i] = "none"
    /\ allowed' = [allowed EXCEPT ![i] = IF tokens > 0 THEN "granted" ELSE "denied"]
    /\ UNCHANGED <<tokens, ticks>>
    /\ UNCHANGED tbRest

\* Allow: select { case <-t.tokens: return true; default: return false }.
Allow(i) ==
    /\ allowed[i] = "none"
    /\ IF tokens > 0
       THEN /\ tokens' = tokens - 1
            /\ allowed' = [allowed EXCEPT ![i] = "granted"]
       ELSE /\ tokens' = tokens
            /\ allowed' = [allowed EXCEPT ![i] = "denied"]
    /\ UNCHANGED ticks
    /\ UNCHANGED tbRest

TbNext ==
    \/ Refill
    \/ \E i \in Requests : Allow(i)

SpecTokenBucket == Init /\ [][TbNext]_vars

\* The requests Allow has granted, and those it has denied.
Granted == { i \in Requests : allowed[i] = "granted" }

Denied == { i \in Requests : allowed[i] = "denied" }

\* C33: the bucket never holds more than burst tokens; Allow never blocks
\* (a request that has not called it yet can always take its step); the
\* calls granted never number more than burst plus the ticks so far; and
\* with no tick, once every request has called Allow, burst of them (all of
\* them if they are fewer) are granted and the others denied.
C33_TokenBucket ==
    /\ tokens \in 0..Burst
    /\ \A i \in Requests : allowed[i] = "none" => ENABLED Allow(i)
    /\ Cardinality(Granted) <= Burst + ticks
    /\ (ticks = 0 /\ Granted \cup Denied = Requests) =>
          /\ Cardinality(Granted) = IF NumRequests < Burst THEN NumRequests ELSE Burst
          /\ Cardinality(Denied) = NumRequests - Cardinality(Granted)

\* C33 witness: no tick, every request has called Allow, burst granted and
\* at least one denied.
C33_Witness ==
    /\ ticks = 0
    /\ Granted \cup Denied = Requests
    /\ Cardinality(Granted) = Burst
    /\ Denied # {}

\* ---------------------------------------------------------------------
\* Event loop example: the three producers, the event loop and the main
\* goroutine of RunEventLoop.

\* What the steps of the event loop example leave alone.
elRest == <<sfVars, abandoned, psVars, fanVars, poolVars, pcVars, mrVars, rpVars,
            apiVars, supVars, tbVars, toVars, plVars>>

\* A producer sends its next event: events <- fmt.Sprintf(...), which blocks
\* while the buffer of the channel is full.  The event is named by its
\* source and its number.
ProduceEvent(k) ==
    /\ evSent[k] < NumEvents
    /\ Len(evBuf[k]) < EventCap
    /\ evSent' = [evSent EXCEPT ![k] = @ + 1]
    /\ evBuf' = [evBuf EXCEPT ![k] = Append(@, <<k, evSent[k] + 1>>)]
    /\ UNCHANGED <<processed, elPc, shutdownClosed>>
    /\ UNCHANGED elRest

\* The select of eventLoop takes case event := <-...Events and processes
\* the event.
ProcessEvent(k) ==
    /\ elPc = "select"
    /\ evBuf[k] # <<>>
    /\ processed' = processed \cup {Head(evBuf[k])}
    /\ evBuf' = [evBuf EXCEPT ![k] = Tail(@)]
    /\ UNCHANGED <<evSent, elPc, shutdownClosed>>
    /\ UNCHANGED elRest

\* The select of eventLoop takes case <-shutdown: return.
LoopShutdown ==
    /\ elPc = "select"
    /\ shutdownClosed
    /\ elPc' = "exit"
    /\ UNCHANGED <<evBuf, evSent, processed, shutdownClosed>>
    /\ UNCHANGED elRest

\* time.Sleep(5 * time.Second) in RunEventLoop is over: close(shutdown).
CloseShutdown ==
    /\ ~shutdownClosed
    /\ shutdownClosed' = TRUE
    /\ UNCHANGED <<evBuf, evSent, processed, elPc>>
    /\ UNCHANGED elRest

ElNext ==
    \/ \E k \in EventSources : ProduceEvent(k)
    \/ \E k \in EventSources : ProcessEvent(k)
    \/ LoopShutdown
    \/ CloseShutdown

SpecEventLoop == Init /\ [][ElNext]_vars

\* The events the producers have sent so far.
SentEvents ==
    { e \in EventSources \X (1..NumEvents) : e[2] <= evSent[e[1]] }

\* C34: at the step by which the event loop returns on the shutdown signal,
\* every event a producer has sent has been processed.
C34_NoEventLost ==
    [][(elPc = "select" /\ elPc' = "exit") => SentEvents \subseteq processed]_vars

\* ---------------------------------------------------------------------
\* Timeouts and cancellation example: RunTimeoutCancellation and the
\* goroutines it starts.

\* What the steps of the timeouts example leave alone.
toRest == <<sfVars, abandoned, psVars, fanVars, poolVars, pcVars, mrVars, rpVars,
            apiVars, supVars, tbVars, elVars, plVars>>

\* The timer of context.WithTimeout fires: ctx is done.
CtxTimeout ==
    /\ ~ctxDone
    /\ ctxDone' = TRUE
    /\ UNCHANGED <<toPc, ctx2Done, resultBuf, ch2Buf, taskPc, task2Pc, cancelPc, outcome>>
    /\ UNCHANGED toRest

\* The select of longRunningTask takes case <-time.After(workTime).
TaskTimer ==
    /\ taskPc = "select"
    /\ taskPc' = "send"
    /\ UNCHANGED <<toPc, ctxDone, ctx2Done, resultBuf, ch2Buf, task2Pc, cancelPc, outcome>>
    /\ UNCHANGED toRest

\* The select of longRunningTask takes case <-ctx.Done(): return.
TaskCancelled ==
    /\ taskPc = "select"
    /\ ctxDone
    /\ taskPc' = "exit"
    /\ UNCHANGED <<toPc, ctxDone, ctx2Done, resultBuf, ch2Buf, task2Pc, cancelPc, outcome>>
    /\ UNCHANGED toRest

\* TaskSend as it would be on an unbuffered result channel: the send needs
\* the caller to be receiving in its first select.
TaskSend_Unbuffered ==
    /\ taskPc = "send"
    /\ toPc = "select1"
    /\ taskPc' = "exit"
    /\ outcome' = [outcome EXCEPT ![1] = "completed"]
    /\ toPc' = "select2"
    /\ task2Pc' = "sleep"
    /\ UNCHANGED <<ctxDone, ctx2Done, resultBuf, ch2Buf, cancelPc>>
    /\ UNCHANGED toRest

\* result <- "Long task completed successfully", which waits while the
\* buffer is full; then longRunningTask returns.
TaskSend ==
    /\ taskPc = "send"
    /\ Len(resultBuf) < ResultCap
    /\ resultBuf' = Append(resultBuf, "Long task completed successfully")
    /\ taskPc' = "exit"
    /\ UNCHANGED <<toPc, ctxDone, ctx2Done, ch2Buf, task2Pc, cancelPc, outcome>>
    /\ UNCHANGED toRest

\* The first select of RunTimeoutCancellation takes case res := <-result;
\* example 2 starts: ch, go func().
MainResult1 ==
    /\ toPc = "select1"
    /\ resultBuf # <<>>
    /\ resultBuf' = Tail(resultBuf)
    /\ outcome' = [outcome EXCEPT ![1] = "completed"]
    /\ toPc' = "select2"
    /\ task2Pc' = "sleep"
    /\ UNCHANGED <<ctxDone, ctx2Done, ch2Buf, taskPc, cancelPc>>
    /\ UNCHANGED toRest

\* The first select takes case <-ctx.Done(); example 2 starts.
MainTimeout1 ==
    /\ toPc = "select1"
    /\ ctxDone
    /\ outcome' = [outcome EXCEPT ![1] = "timedOut"]
    /\ toPc' = "select2"
    /\ task2Pc' = "sleep"
    /\ UNCHANGED <<ctxDone, ctx2Done, resultBuf, ch2Buf, taskPc, cancelPc>>
    /\ UNCHANGED toRest

\* time.Sleep(3 * time.Second) of the goroutine of example 2 is over.
Task2Wake ==
    /\ task2Pc = "sleep"
    /\ task2Pc' = "send"
    /\ UNCHANGED <<toPc, ctxDone, ctx2Done, resultBuf, ch2Buf, taskPc, cancelPc, outcome>>
    /\ UNCHANGED toRest

\* ch <- "Channel task completed"; the goroutine returns.
Task2Send ==
    /\ task2Pc = "send"
    /\ Len(ch2Buf) < ResultCap
    /\ ch2Buf' = Append(ch2Buf, "Channel task completed")
    /\ task2Pc' = "exit"
    /\ UNCHANGED <<toPc, ctxDone, ctx2Done, resultBuf, taskPc, cancelPc, outcome>>
    /\ UNCHANGED toRest

\* The second select takes case res := <-ch; example 3 starts: ctx2,
\* go func().
MainResult2 ==
    /\ toPc = "select2"
    /\ ch2Buf # <<>>
    /\ ch2Buf' = Tail(ch2Buf)
    /\ outcome' = [outcome EXCEPT ![2] = "completed"]
    /\ toPc' = "select3"
    /\ cancelPc' = "sleep"
    /\ UNCHANGED <<ctxDone, ctx2Done, resultBuf, taskPc, task2Pc>>
    /\ UNCHANGED toRest

\* The second select takes case <-time.After(1 * time.Second); example 3
\* starts.
MainTimeout2 ==
    /\ toPc = "select2"
    /\ outcome' = [outcome EXCEPT ![2] = "timedOut"]
    /\ toPc' = "select3"
    /\ cancelPc' = "sleep"
    /\ UNCHANGED <<ctxDone, ctx2Done, resultBuf, ch2Buf, taskPc, task2Pc>>
    /\ UNCHANGED toRest

\* The goroutine of example 3: time.Sleep; cancel2().
Canceller ==
    /\ cancelPc = "sleep"
    /\ ctx2Done' = TRUE
    /\ cancelPc' = "exit"
    /\ UNCHANGED <<toPc, ctxDone, resultBuf, ch2Buf, taskPc, task2Pc, outcome>>
    /\ UNCHANGED toRest

\* The third select takes case <-time.After(2 * time.Second);
\* RunTimeoutCancellation returns: deferred cancel2() and cancel().
MainAfter3 ==
    /\ toPc = "select3"
    /\ outcome' = [outcome EXCEPT ![3] = "completed"]
    /\ toPc' = "done"
    /\ ctx2Done' = TRUE
    /\ ctxDone' = TRUE
    /\ UNCHANGED <<resultBuf, ch2Buf, taskPc, task2Pc, cancelPc>>
    /\ UNCHANGED toRest

\* The third select takes case <-ctx2.Done(); RunTimeoutCancellation
\* returns: deferred cancel2() and cancel().
MainCancelled3 ==
    /\ toPc = "select3"
    /\ ctx2Done
    /\ outcome' = [outcome EXCEPT ![3] = "cancelled"]
    /\ toPc' = "done"
    /\ ctx2Done' = TRUE
    /\ ctxDone' = TRUE
    /\ UNCHANGED <<resultBuf, ch2Buf, taskPc, task2Pc, cancelPc>>
    /\ UNCHANGED toRest

\* The steps of longRunningTask, and those of the goroutine of example 2.
TaskStep == TaskTimer \/ TaskCancelled \/ TaskSend

Task2Step == Task2Wake \/ Task2Send

ToNext ==
    \/ CtxTimeout
    \/ TaskTimer
    \/ TaskCancelled
    \/ TaskSend
    \/ MainResult1
    \/ MainTimeout1
    \/ Task2Wake
    \/ Task2Send
    \/ MainResult2
    \/ MainTimeout2
    \/ Canceller
    \/ MainAfter3
    \/ MainCancelled3

\* A goroutine that can take a step is scheduled in the end.
SpecTimeout ==
    Init /\ [][ToNext]_vars /\ WF_vars(TaskStep) /\ WF_vars(Task2Step)

\* A task at its send can complete it: the buffer of its channel has room.
C35_SendNeverBlocks ==
    /\ taskPc = "send" => ENABLED TaskSend
    /\ task2Pc = "send" => ENABLED Task2Send

\* Each channel receives at most one send.
C35_OneSend ==
    /\ Len(resultBuf) + (IF outcome[1] = "completed" THEN 1 ELSE 0) <= 1
    /\ taskPc # "exit" => resultBuf = <<>> /\ outcome[1] # "completed"
    /\ Len(ch2Buf) + (IF outcome[2] = "completed" THEN 1 ELSE 0) <= 1
    /\ task2Pc # "exit" => ch2Buf = <<>> /\ outcome[2] # "completed"

\* C35: the task goroutines terminate whether or not their caller has
\* already given up: a task at its send never finds the buffer full, each
\* result channel receives at most one send, and every started task
\* returns in the end.
C35_TaskTerminates ==
    /\ [](C35_SendNeverBlocks /\ C35_OneSend)
    /\ <>(taskPc = "exit")
    /\ (task2Pc # "none") ~> (task2Pc = "exit")

\* C35 witness: the caller of longRunningTask has timed out and gone on,
\* the task completed afterwards and is at its send (the channel-based task
\* likewise).
C35_Witness ==
    /\ outcome[1] = "timedOut"
    /\ taskPc = "send"
    /\ outcome[2] = "timedOut"
    /\ task2Pc = "send"

\* ---------------------------------------------------------------------
\* Pipeline example: the three stage goroutines and the range loop of
\* RunPipeline.  The channels are unbuffered: a send and its receive are
\* one step.

\* What the steps of the pipeline leave alone.
plRest == <<sfVars, abandoned, psVars, fanVars, poolVars, pcVars, mrVars, rpVars,
            apiVars, supVars, tbVars, elVars, toVars>>

\* generateNumbers: num := rand.Intn(10) + 1, with i < count.
Generate ==
    /\ genPc = "gen"
    /\ genI < PlCount
    /\ \E num \in Nums :
          /\ genNum' = num
          /\ generated' = Append(generated, num)
    /\ genPc' = "send"
    /\ UNCHANGED <<genI, numbersClosed, sqPc, sqVal, squaredClosed, atPc, atVal,
                   resultClosed, plPc, emitted>>
    /\ UNCHANGED plRest

\* generateNumbers leaves its loop: deferred close(out).
GenerateClose ==
    /\ genPc = "gen"
    /\ genI >= PlCount
    /\ numbersClosed' = TRUE
    /\ genPc' = "exit"
    /\ UNCHANGED <<genI, genNum, generated, sqPc, sqVal, squaredClosed, atPc, atVal,
                   resultClosed, plPc, emitted>>
    /\ UNCHANGED plRest

\* out <- num of generateNumbers meets for num := range in of square:
\* squared := num * num.
SquareRecv ==
    /\ genPc = "send"
    /\ sqPc = "recv"
    /\ sqVal' = genNum * genNum
    /\ sqPc' = "send"
    /\ genPc' = "gen"
    /\ genI' = genI + 1
    /\ UNCHANGED <<genNum, generated, numbersClosed, squaredClosed, atPc, atVal,
                   resultClosed, plPc, emitted>>
    /\ UNCHANGED plRest

\* The range loop of square ends on the closed channel: deferred close(out).
SquareClose ==
    /\ sqPc = "recv"
    /\ numbersClosed
    /\ squaredClosed' = TRUE
    /\ sqPc' = "exit"
    /\ UNCHANGED <<genPc, genI, genNum, generated, numbersClosed, sqVal, atPc, atVal,
                   resultClosed, plPc, emitted>>
    /\ UNCHANGED plRest

\* AddTenRecv as it would be if it passed the number on unchanged.
AddTenRecv_NoAdd ==
    /\ sqPc = "send"
    /\ atPc = "recv"
    /\ atVal' = sqVal
    /\ atPc' = "send"
    /\ sqPc' = "recv"
    /\ UNCHANGED <<genPc, genI, genNum, generated, numbersClosed, sqVal, squaredClosed,
                   resultClosed, plPc, emitted>>
    /\ UNCHANGED plRest

\* out <- squared of square meets for num := range in of addTen:
\* result := num + 10.
AddTenRecv ==
    /\ sqPc = "send"
    /\ atPc = "recv"
    /\ atVal' = sqVal + 10
    /\ atPc' = "send"
    /\ sqPc' = "recv"
    /\ UNCHANGED <<genPc, genI, genNum, generated, numbersClosed, sqVal, squaredClosed,
                   resultClosed, plPc, emitted>>
    /\ UNCHANGED plRest

\* The range loop of addTen ends on the closed channel: deferred close(out).
AddTenClose ==
    /\ atPc = "recv"
    /\ squaredClosed
    /\ resultClosed' = TRUE
    /\ atPc' = "exit"
    /\ UNCHANGED <<genPc, genI, genNum, generated, numbersClosed, sqPc, sqVal,
                   squaredClosed, atVal, plPc, emitted>>
    /\ UNCHANGED plRest

\* out <- result of addTen meets for num := range result of RunPipeline.
PipelineRecv ==
    /\ atPc = "send"
    /\ plPc = "recv"
    /\ emitted' = Append(emitted, atVal)
    /\ atPc' = "recv"
    /\ UNCHANGED <<genPc, genI, genNum, generated, numbersClosed, sqPc, sqVal,
                   squaredClosed, atVal, resultClosed, plPc>>
    /\ UNCHANGED plRest

\* The range loop of RunPipeline ends on the closed channel.
PipelineDone ==
    /\ plPc = "recv"
    /\ resultClosed
    /\ plPc' = "done"
    /\ UNCHANGED <<genPc, genI, genNum, generated, numbersClosed, sqPc, sqVal,
                   squaredClosed, atPc, atVal, resultClosed, emitted>>
    /\ UNCHANGED plRest

PlNext ==
    \/ Generate
    \/ GenerateClose
    \/ SquareRecv
    \/ SquareClose
    \/ AddTenRecv
    \/ AddTenClose
    \/ PipelineRecv
    \/ PipelineDone

\* A goroutine that can take a step is scheduled in the end.
SpecPipeline == Init /\ [][PlNext]_vars /\ WF_vars(PlNext)

\* The k-th value emitted is n*n+10 for the k-th generated number n, and no
\* more values are emitted than were generated.
C36_OrderAndValue ==
    /\ Len(emitted) <= Len(generated)
    /\ \A k \in 1..Len(emitted) : emitted[k] = generated[k] * generated[k] + 10

\* A stage closes its output only when its input is closed and it holds no
\* value; when the loop of RunPipeline has ended, as many values were
\* emitted as numbers were generated, PlCount of them.
C36_CloseAfterInput ==
    /\ numbersClosed => Len(generated) = PlCount /\ genPc = "exit"
    /\ squaredClosed => numbersClosed /\ sqPc = "exit"
    /\ resultClosed => squaredClosed /\ atPc = "exit"
    /\ plPc = "done" => resultClosed /\ Len(emitted) = Len(generated)

\* C36: the three stages keep order and count, each stage closes its
\* output after its input is exhausted, and the loop of RunPipeline ends.
C36_PipelineOrderCount ==
    /\ [](C36_OrderAndValue /\ C36_CloseAfterInput)
    /\ <>(plPc = "done")

\* C36 witness: the loop has ended after PlCount values, not all from the
\* same number.
C36_Witness ==
    /\ plPc = "done"
    /\ Len(emitted) = PlCount
    /\ \E j, k \in 1..Len(emitted) : emitted[j] # emitted[k]

\* ---------------------------------------------------------------------
\* Resource pooling example: connection ids and the discard branch.

\* C37: the connections of the pool, in the channel or held, have ids that
\* differ from one another.
C37_UniqueIds ==
    \A x, y \in Existing : x.id = y.id => x = y

\* The step by which goroutine w returns from releaseConnection.
ReleaseStep(w) == cpc[w] = "use" /\ cpc'[w] = "done"

\* C38: while the pool is open and every goroutine releases the connection
\* it got once, a goroutine about to release finds room in the channel, and
\* its releaseConnection puts the connection at the end of the channel: the
\* discard branch is never taken.
C38_ReleaseNeverDiscards ==
    /\ [](\A w \in Clients : cpc[w] = "use" =>
             ~connClosed /\ Len(connections) < PoolMaxSize)
    /\ [][\A w \in Clients :
             ReleaseStep(w) => connections' = Append(connections, conn[w])]_vars

\* C38 witness: every connection the pool may have is back in the channel,
\* which is full, after a goroutine that created one released it.
C38_Witness ==
    /\ Len(connections) = PoolMaxSize
    /\ allocs > PoolInitial
    /\ \E w \in Clients : cpc[w] = "done"

====
